---- MODULE Spec2Model ----
(***************************************************************************)
(* Session store of the LazorKey demo application                          *)
(* (features/session/services/session.service.ts as listed in README.md,   *)
(* and the useSession hook that calls it).                                 *)
(*                                                                         *)
(* Time is counted in abstract clock units; one unit stands for a fixed    *)
(* number of milliseconds larger than 100 ms.                              *)
(***************************************************************************)
EXTENDS Integers, FiniteSets, Sequences, TLC

\* ------------------------------------------------------------------ bounds
MaxTime == 3            \* Date.now() ranges over 0..MaxTime
MaxExpiryMs == 2        \* largest expiryMs / additionalMs / thresholdMs argument
MaxExpiresAt == 6       \* extendSession is not called past this expiresAt
sessionExpiryMs == 2    \* hook option (default 24 h), in clock units
expiryWarningMs == 1    \* hook option (default 5 min), in clock units

\* ------------------------------------------------------------- value sets
Addresses == {"AddrA", "AddrB"}
NoAddress == ""
\* the service functions check none of their numeric arguments
DurationValues == (0 - 1)..MaxExpiryMs
ThresholdValues == 0..MaxExpiryMs

SESSION_KEY == "LazorKey_session"
PREFS_KEY == "LazorKey_user_preferences"

\* the value `null` of a SessionData | null result
Null == [kind |-> "null"]

\* localStorage.getItem(key) of a key that is not set
NoItem == [kind |-> "none"]
\* a stored empty string (falsy in JavaScript)
EmptyString == [kind |-> "empty"]
\* a stored non-empty string that JSON.parse rejects
Garbage == [kind |-> "garbage"]
\* JSON.stringify(v): a stored string that JSON.parse turns back into v
Stringify(v) == [kind |-> "json", val |-> v]
\* JSON.parse(s) throws SyntaxError exactly when s is not JSON text
ParseThrows(s) == s.kind # "json"
Parse(s) == s.val

DefaultPreferences == [theme |-> "system", showBalance |-> TRUE, notifications |-> TRUE]
PrefKeys == {"theme", "showBalance", "notifications"}
\* Partial<UserPreferences> arguments of saveUserPreferences / updatePreferences
PrefUpdates == { [k \in {"theme"} |-> "dark"], [k \in {"showBalance"} |-> FALSE] }

VARIABLES
    now,            \* Date.now()
    localStorage,   \* window.localStorage: key -> stored string or NoItem
    session,        \* useSession state: SessionData | null
    timeRemaining,  \* useSession state
    isExpiringSoon, \* useSession state
    preferences,    \* useSession state
    out,            \* the last call: its name, arguments, result, whether it threw,
                    \* and the storage it started from
    navigator,      \* lib/utils.ts: the browser's userAgent and platform
    held,           \* the string handed to decryptLocal next
    origin,         \* the encryptLocal call that made held, and what was done to it
    res,            \* the last decryptLocal call and its result
    retry,          \* lib/utils.ts: one withRetry call, its arguments and progress
    wallet,         \* useWallet(): the connected smart wallet's address, or NoAddress
    fiber,          \* the mounted useSession instance: effects due, timers,
                    \* listeners and registered cleanups
    xfer,           \* useTransfer / useUsdcTransfer: the wallet and balance the
                    \* hooks render with, and the last transfer call
    onboarding,     \* useOnboarding / GettingStartedWizard: the stored flag and
                    \* the wizard instance
    bal,            \* useSolBalance / useUsdcBalance: the hook's state, the wallet it
                    \* renders with and the balance requests in flight
    perr,           \* lib/utils/errorHandler.ts: the value handed to parseError and the
                    \* ErrorInfo it returned
    txn,            \* features/wallet/hooks/useTransaction.ts: the state of the hook, the
                    \* wallet it reads and the execute calls made so far
    swapPage        \* the swap page and its useSwap hook: the inputs, the displayed quote,
                    \* the debounce timer, the quote requests in flight, priceImpact and
                    \* the quote cache

vars == <<now, localStorage, session, timeRemaining, isExpiringSoon, preferences, out>>
hookVars == <<session, timeRemaining, isExpiringSoon, preferences>>
encryptorVars == <<navigator, held, origin, res>>
\* what the session store and the hook never touch
notSession == <<encryptorVars, retry, wallet, fiber, xfer, onboarding, bal, perr, txn, swapPage>>
\* what the local encryptor never touches
notEncryptor == <<vars, retry, wallet, fiber, xfer, onboarding, bal, perr, txn, swapPage>>
\* what withRetry never touches
notRetry == <<vars, encryptorVars, wallet, fiber, xfer, onboarding, bal, perr, txn, swapPage>>
\* what the mounted hook never touches
notHook == <<encryptorVars, retry, xfer, onboarding, bal, perr, txn, swapPage>>
\* what the transfer hooks never touch
notTransfer == <<vars, encryptorVars, retry, wallet, fiber, onboarding, bal, perr, txn, swapPage>>
\* what the onboarding wizard never touches
notOnboarding == <<vars, encryptorVars, retry, wallet, fiber, xfer, bal, perr, txn, swapPage>>
\* what the balance hooks never touch
notBalance == <<vars, encryptorVars, retry, wallet, fiber, xfer, onboarding, perr, txn, swapPage>>
\* what parseError never touches
notParseError == <<vars, encryptorVars, retry, wallet, fiber, xfer, bal, onboarding, txn, swapPage>>
\* what useTransaction never touches
notTxn == <<vars, encryptorVars, retry, wallet, fiber, xfer, bal, perr, onboarding, swapPage>>
\* what the swap page never touches
notSwapPage == <<vars, encryptorVars, retry, wallet, fiber, xfer, bal, perr, txn, onboarding>>

\* ------------------------------------------------- session.service.ts
\* Each function is an operator of the storage ls and the clock t that gives
\* its return value, the storage it leaves and whether it threw.
Result(r, ls, th) == [ret |-> r, store |-> ls, threw |-> th]

SetItem(ls, key, s) == [ls EXCEPT ![key] = s]
RemoveItem(ls, key) == [ls EXCEPT ![key] = NoItem]

\* variant: ends the session with localStorage.clear()
ClearSession_ClearsAll(ls) ==
    RemoveItem(RemoveItem(ls, SESSION_KEY), PREFS_KEY)

ClearSession(ls) == RemoveItem(ls, SESSION_KEY)

\* variant: a record already stored keeps its createdAt
CreateSession_KeepsCreatedAt(ls, t, walletAddress, expiryMs) ==
    LET old == ls[SESSION_KEY]
        s == [walletAddress |-> walletAddress,
              createdAt |-> IF old.kind = "json" THEN Parse(old).createdAt ELSE t,
              expiresAt |-> t + expiryMs,
              lastActivity |-> t]
    IN Result(s, SetItem(ls, SESSION_KEY, Stringify(s)), FALSE)

\* variant: expiresAt is the duration, not the instant
CreateSession_RelativeExpiry(ls, t, walletAddress, expiryMs) ==
    LET s == [walletAddress |-> walletAddress,
              createdAt |-> t,
              expiresAt |-> expiryMs,
              lastActivity |-> t]
    IN Result(s, SetItem(ls, SESSION_KEY, Stringify(s)), FALSE)

\* The listing adds the fixed SESSION_DURATION; the hook calls
\* createSession(address, { expiryMs: sessionExpiryMs }), so the duration is
\* the parameter expiryMs here.
CreateSession(ls, t, walletAddress, expiryMs) ==
    LET s == [walletAddress |-> walletAddress,
              createdAt |-> t,
              expiresAt |-> t + expiryMs,
              lastActivity |-> t]
    IN Result(s, SetItem(ls, SESSION_KEY, Stringify(s)), FALSE)

\* variant: returns null for an expired record without removing it
GetSession_KeepsExpired(ls, t) ==
    LET stored == ls[SESSION_KEY] IN
    IF stored = NoItem \/ stored = EmptyString THEN Result(Null, ls, FALSE)
    ELSE IF ParseThrows(stored) THEN Result(Null, ls, TRUE)
    ELSE IF t > Parse(stored).expiresAt THEN Result(Null, ls, FALSE)
    ELSE Result(Parse(stored), ls, FALSE)

\* variant: expires the record already at now = expiresAt
GetSession_StrictExpiry(ls, t) ==
    LET stored == ls[SESSION_KEY] IN
    IF stored = NoItem \/ stored = EmptyString THEN Result(Null, ls, FALSE)
    ELSE IF ParseThrows(stored) THEN Result(Null, ls, TRUE)
    ELSE IF t >= Parse(stored).expiresAt THEN Result(Null, ClearSession(ls), FALSE)
    ELSE Result(Parse(stored), ls, FALSE)

\* variant: tests the clock against lastActivity instead of expiresAt
GetSession_ExpiresOnLastActivity(ls, t) ==
    LET stored == ls[SESSION_KEY] IN
    IF stored = NoItem \/ stored = EmptyString THEN Result(Null, ls, FALSE)
    ELSE IF ParseThrows(stored) THEN Result(Null, ls, TRUE)
    ELSE IF t > Parse(stored).lastActivity THEN Result(Null, ClearSession(ls), FALSE)
    ELSE Result(Parse(stored), ls, FALSE)

GetSession(ls, t) ==
    LET stored == ls[SESSION_KEY] IN
    IF stored = NoItem \/ stored = EmptyString THEN Result(Null, ls, FALSE)
    ELSE IF ParseThrows(stored) THEN Result(Null, ls, TRUE)
    ELSE IF t > Parse(stored).expiresAt THEN Result(Null, ClearSession(ls), FALSE)
    ELSE Result(Parse(stored), ls, FALSE)

\* variant: writes back the expiry the hook creates sessions with
UpdateLastActivity_StaleExpiry(ls, t) ==
    LET g == GetSession(ls, t) IN
    IF g.threw THEN g
    ELSE IF g.ret # Null
         THEN Result(Null,
                     SetItem(g.store, SESSION_KEY,
                             Stringify([g.ret EXCEPT
                                 !.lastActivity = t,
                                 !.expiresAt = g.ret.createdAt + sessionExpiryMs])),
                     FALSE)
         ELSE Result(Null, g.store, FALSE)

\* variant: activity also slides expiresAt by the session's original length
UpdateLastActivity_SlidingExpiry(ls, t) ==
    LET g == GetSession(ls, t) IN
    IF g.threw THEN g
    ELSE IF g.ret # Null
         THEN Result(Null,
                     SetItem(g.store, SESSION_KEY,
                             Stringify([g.ret EXCEPT
                                 !.lastActivity = t,
                                 !.expiresAt = t + (g.ret.expiresAt - g.ret.createdAt)])),
                     FALSE)
         ELSE Result(Null, g.store, FALSE)

UpdateLastActivity(ls, t) ==
    LET g == GetSession(ls, t) IN
    IF g.threw THEN g
    ELSE IF g.ret # Null
         THEN Result(Null,
                     SetItem(g.store, SESSION_KEY,
                             Stringify([g.ret EXCEPT !.lastActivity = t])),
                     FALSE)
         ELSE Result(Null, g.store, FALSE)

\* The functions below are imported by the hook from ../services; their
\* bodies are not part of the listing and follow the store's description:
\* each is derived from getSession.
ExtendSession(ls, t, additionalMs) ==
    LET g == GetSession(ls, t) IN
    IF g.threw THEN g
    ELSE IF g.ret = Null THEN Result(Null, g.store, FALSE)
    ELSE LET s == [g.ret EXCEPT !.expiresAt = g.ret.expiresAt + additionalMs]
         IN Result(s, SetItem(g.store, SESSION_KEY, Stringify(s)), FALSE)

HasValidSession(ls, t) ==
    LET g == GetSession(ls, t) IN
    IF g.threw THEN g ELSE Result(g.ret # Null, g.store, FALSE)

Max(a, b) == IF a >= b THEN a ELSE b

GetSessionTimeRemaining(ls, t) ==
    LET g == GetSession(ls, t) IN
    IF g.threw THEN g
    ELSE IF g.ret = Null THEN Result(0, g.store, FALSE)
    ELSE Result(Max(0, g.ret.expiresAt - t), g.store, FALSE)

IsSessionExpiringSoon(ls, t, thresholdMs) ==
    LET r == GetSessionTimeRemaining(ls, t) IN
    IF r.threw THEN r
    ELSE Result(r.ret > 0 /\ r.ret < thresholdMs, r.store, FALSE)

GetUserPreferences(ls) ==
    IF ls[PREFS_KEY] = NoItem THEN DefaultPreferences ELSE Parse(ls[PREFS_KEY])

Merge(cur, prefs) ==
    [k \in PrefKeys |-> IF k \in DOMAIN prefs THEN prefs[k] ELSE cur[k]]

SaveUserPreferences(ls, prefs) ==
    Result(TRUE,
           SetItem(ls, PREFS_KEY, Stringify(Merge(GetUserPreferences(ls), prefs))),
           FALSE)

ClearAllSessionData(ls, keepPreferences) ==
    IF keepPreferences THEN ClearSession(ls)
    ELSE RemoveItem(ClearSession(ls), PREFS_KEY)

\* ------------------------------------------------------------------- Init
SessionInit ==
    /\ now = 0
    /\ localStorage = [k \in {SESSION_KEY, PREFS_KEY} |-> NoItem]
    /\ session = Null
    /\ timeRemaining = 0
    /\ isExpiringSoon = FALSE
    /\ preferences = DefaultPreferences
    /\ out = [op |-> "init", arg |-> Null, ret |-> Null, threw |-> FALSE,
             pre |-> [k \in {SESSION_KEY, PREFS_KEY} |-> NoItem]]

Done(op, arg, ret, threw) ==
    [op |-> op, arg |-> arg, ret |-> ret, threw |-> threw, pre |-> localStorage]
Out(op, arg, r) == Done(op, arg, r.ret, r.threw)

\* ----------------------------------------------------------- environment
\* the clock advances
Tick ==
    /\ now < MaxTime
    /\ now' = now + 1
    /\ out' = Done("tick", Null, Null, FALSE)
    /\ UNCHANGED <<localStorage, hookVars>>

\* something other than the session store overwrites the session key
\* (storage is plain text that any script of the origin or the user can edit)
ExternalWrite ==
    /\ \E s \in {Garbage, EmptyString} :
         /\ localStorage[SESSION_KEY] # s
         /\ localStorage' = SetItem(localStorage, SESSION_KEY, s)
    /\ out' = Done("externalWrite", Null, Null, FALSE)
    /\ UNCHANGED <<now, hookVars>>

\* ------------------------------------------- direct calls of the service
\* a call of a service function f whose result record is r
Call(op, arg, r) ==
    /\ localStorage' = r.store
    /\ out' = Out(op, arg, r)
    /\ UNCHANGED <<now, hookVars>>

createSession ==
    \E a \in Addresses, ms \in DurationValues :
        Call("createSession", [walletAddress |-> a, expiryMs |-> ms],
             CreateSession(localStorage, now, a, ms))

getSession == Call("getSession", Null, GetSession(localStorage, now))

clearSession ==
    Call("clearSession", Null, Result(Null, ClearSession(localStorage), FALSE))

updateLastActivity ==
    Call("updateLastActivity", Null, UpdateLastActivity(localStorage, now))

\* the guard keeps expiresAt within the model's range
ExtendInRange(ms) ==
    LET stored == localStorage[SESSION_KEY] IN
    stored.kind = "json" =>
        /\ Parse(stored).expiresAt + ms <= MaxExpiresAt
        /\ Parse(stored).expiresAt + ms >= 0 - 1

extendSession ==
    \E ms \in DurationValues :
        /\ ExtendInRange(ms)
        /\ Call("extendSession", [additionalMs |-> ms],
                ExtendSession(localStorage, now, ms))

hasValidSession == Call("hasValidSession", Null, HasValidSession(localStorage, now))

getSessionTimeRemaining ==
    Call("getSessionTimeRemaining", Null, GetSessionTimeRemaining(localStorage, now))

isSessionExpiringSoon ==
    \E th \in ThresholdValues :
        Call("isSessionExpiringSoon", [thresholdMs |-> th],
             IsSessionExpiringSoon(localStorage, now, th))

saveUserPreferences ==
    \E p \in PrefUpdates :
        Call("saveUserPreferences", [prefs |-> p], SaveUserPreferences(localStorage, p))

clearAllSessionData ==
    \E keep \in BOOLEAN :
        Call("clearAllSessionData", [keepPreferences |-> keep],
             Result(Null, ClearAllSessionData(localStorage, keep), FALSE))

\* ------------------------------------------------------- useSession hook
\* `address = walletAddress || smartWalletPubkey?.toBase58()`: an absent
\* argument / a disconnected wallet is NoAddress (falsy, like "")
createNewSession ==
    \E walletAddress \in Addresses \cup {NoAddress},
       smartWalletPubkey \in Addresses \cup {NoAddress} :
        LET address == IF walletAddress # NoAddress THEN walletAddress
                       ELSE smartWalletPubkey
            arg == [walletAddress |-> walletAddress, smartWalletPubkey |-> smartWalletPubkey]
        IN
        IF address = NoAddress
        THEN /\ out' = Done("createNewSession", arg, Null, FALSE)
             /\ UNCHANGED <<now, localStorage, hookVars>>
        ELSE LET r == CreateSession(localStorage, now, address, sessionExpiryMs) IN
             /\ localStorage' = r.store
             /\ session' = r.ret
             /\ timeRemaining' = sessionExpiryMs
             /\ isExpiringSoon' = FALSE
             /\ out' = Out("createNewSession", arg, r)
             /\ UNCHANGED <<now, preferences>>

endSession ==
    \E keepPreferences \in BOOLEAN :
        /\ localStorage' = ClearAllSessionData(localStorage, keepPreferences)
        /\ session' = Null
        /\ timeRemaining' = 0
        /\ isExpiringSoon' = FALSE
        /\ preferences' = IF keepPreferences THEN preferences ELSE DefaultPreferences
        /\ out' = Done("endSession", [keepPreferences |-> keepPreferences], Null, FALSE)
        /\ UNCHANGED now

\* `extendSession(additionalMs || sessionExpiryMs)`: 0 (and an absent
\* argument, which is not told apart from 0 here) falls back to sessionExpiryMs
extendCurrentSession ==
    \E additionalMs \in DurationValues :
        LET ms == IF additionalMs = 0 THEN sessionExpiryMs ELSE additionalMs
            e == ExtendSession(localStorage, now, ms)
            arg == [additionalMs |-> additionalMs]
        IN
        /\ ExtendInRange(ms)
        /\ out' = Out("extendCurrentSession", arg, e)
        /\ IF e.threw \/ e.ret = Null
           THEN /\ localStorage' = e.store
                /\ UNCHANGED <<now, hookVars>>
           ELSE LET r == GetSessionTimeRemaining(e.store, now) IN
                /\ localStorage' = r.store
                /\ session' = e.ret
                /\ timeRemaining' = r.ret
                /\ isExpiringSoon' = FALSE
                /\ UNCHANGED <<now, preferences>>

updatePreferences ==
    \E prefs \in PrefUpdates :
        LET r == SaveUserPreferences(localStorage, prefs) IN
        /\ localStorage' = r.store
        /\ preferences' = IF r.ret THEN Merge(preferences, prefs) ELSE preferences
        /\ out' = Out("updatePreferences", [prefs |-> prefs], r)
        /\ UNCHANGED <<now, session, timeRemaining, isExpiringSoon>>

\* the three reads that refresh and checkExpiry start with; the first one
\* that throws ends the callback
ReadAll(ls, t) ==
    LET g == GetSession(ls, t)
        r == GetSessionTimeRemaining(g.store, t)
        e == IsSessionExpiringSoon(r.store, t, expiryWarningMs)
    IN [storedSession |-> g.ret, remaining |-> r.ret, expiringSoon |-> e.ret,
        store |-> e.store, threw |-> g.threw \/ r.threw \/ e.threw]

\* one clock unit is more than the 100 ms that setTimeRemaining ignores, so
\* `Math.abs(prev - newTimeRemaining) > 100` is `prev # newTimeRemaining`
refresh ==
    LET a == ReadAll(localStorage, now) IN
    /\ out' = Done("refresh", Null, Null, a.threw)
    /\ localStorage' = a.store
    /\ IF a.threw THEN UNCHANGED <<now, hookVars>>
       ELSE /\ session' =
                 IF a.storedSession = Null THEN Null
                 ELSE IF session = Null THEN a.storedSession
                 ELSE IF \/ session.walletAddress # a.storedSession.walletAddress
                         \/ session.expiresAt # a.storedSession.expiresAt
                         \/ session.createdAt # a.storedSession.createdAt
                      THEN a.storedSession
                      ELSE session
            /\ preferences' = GetUserPreferences(a.store)
            /\ timeRemaining' = IF timeRemaining # a.remaining THEN a.remaining
                                ELSE timeRemaining
            /\ isExpiringSoon' = a.expiringSoon
            /\ UNCHANGED now

\* the listeners and the interval exist only while the hook holds a session
handleActivity ==
    /\ session # Null
    /\ LET r == UpdateLastActivity(localStorage, now) IN
        /\ localStorage' = r.store
        /\ out' = Out("handleActivity", Null, r)
    /\ UNCHANGED <<now, hookVars>>

activityInterval ==
    /\ session # Null
    /\ LET h == HasValidSession(localStorage, now)
           r == IF h.threw \/ ~h.ret THEN Result(Null, h.store, h.threw)
                ELSE UpdateLastActivity(h.store, now)
       IN /\ localStorage' = r.store
          /\ out' = Out("activityInterval", Null, r)
    /\ UNCHANGED <<now, hookVars>>

checkExpiry ==
    LET a == ReadAll(localStorage, now) IN
    /\ out' = Done("checkExpiry", Null, Null, a.threw)
    /\ IF a.threw
       THEN /\ localStorage' = a.store
            /\ UNCHANGED <<now, hookVars>>
       ELSE LET expired == a.remaining = 0 /\ a.storedSession # Null IN
            /\ session' =
                 IF expired THEN Null
                 ELSE IF a.storedSession # Null
                         /\ (session = Null
                             \/ session.walletAddress # a.storedSession.walletAddress)
                      THEN a.storedSession
                      ELSE session
            /\ timeRemaining' = a.remaining
            /\ isExpiringSoon' = a.expiringSoon
            /\ localStorage' = IF expired THEN ClearSession(a.store) ELSE a.store
            /\ UNCHANGED <<now, preferences>>

\* isValid: session !== null && hasValidSession(), evaluated on render
IsValid ==
    session # Null /\ ~HasValidSession(localStorage, now).threw
                   /\ HasValidSession(localStorage, now).ret

\* ============================================ lib/utils.ts: local encryptor
\* Strings are sequences of UTF-16 code units (numbers) where their content
\* is encoded, and sequences of one-character strings where they are payload
\* text; byte arrays are sequences over 0..255.
IvLen == 12             \* crypto.getRandomValues(new Uint8Array(12))
SaltLen == 16           \* crypto.getRandomValues(new Uint8Array(16))
TagLen == 1             \* bytes of authentication tag the cipher appends

\* U+FEFF, the byte order mark
IsBOM(u) == u = 65279
IsHighSurrogate(u) == u >= 55296 /\ u <= 56319
IsLowSurrogate(u) == u >= 56320 /\ u <= 57343

\* the code points of a string as TextEncoder reads it: a surrogate pair is
\* one code point, an unpaired surrogate is read as U+FFFD
RECURSIVE CodePoints(_)
CodePoints(s) ==
    IF s = <<>> THEN <<>>
    ELSE IF IsHighSurrogate(s[1]) /\ Len(s) >= 2 /\ IsLowSurrogate(s[2])
    THEN <<65536 + (s[1] - 55296) * 1024 + (s[2] - 56320) >>
         \o CodePoints(SubSeq(s, 3, Len(s)))
    ELSE IF IsHighSurrogate(s[1]) \/ IsLowSurrogate(s[1])
    THEN << 65533 >> \o CodePoints(Tail(s))
    ELSE <<s[1]>> \o CodePoints(Tail(s))

Utf8(cp) ==
    IF cp < 128 THEN <<cp>>
    ELSE IF cp < 2048 THEN <<192 + cp \div 64, 128 + (cp % 64) >>
    ELSE IF cp < 65536
    THEN <<224 + cp \div 4096, 128 + ((cp \div 64) % 64), 128 + (cp % 64) >>
    ELSE <<240 + cp \div 262144, 128 + ((cp \div 4096) % 64),
           128 + ((cp \div 64) % 64), 128 + (cp % 64) >>

RECURSIVE Utf8All(_)
Utf8All(cps) == IF cps = <<>> THEN <<>> ELSE Utf8(cps[1]) \o Utf8All(Tail(cps))

\* new TextEncoder().encode(s)
TextEncode(s) == Utf8All(CodePoints(s))

IsContinuation(b) == b >= 128 /\ b <= 191

\* the code points of a byte array as a non-fatal UTF-8 decoder reads it; a
\* byte that starts no well-formed sequence is read as U+FFFD
RECURSIVE Utf8Decode(_)
Utf8Decode(b) ==
    IF b = <<>> THEN <<>>
    ELSE
    LET n == Len(b)
        c2 == (b[1] - 192) * 64 + (b[2] - 128)
        c3 == (b[1] - 224) * 4096 + (b[2] - 128) * 64 + (b[3] - 128)
        c4 == (b[1] - 240) * 262144 + (b[2] - 128) * 4096
              + (b[3] - 128) * 64 + (b[4] - 128)
    IN
    IF b[1] < 128 THEN <<b[1]>> \o Utf8Decode(Tail(b))
    ELSE IF b[1] >= 194 /\ b[1] <= 223 /\ n >= 2 /\ IsContinuation(b[2])
    THEN <<c2 >> \o Utf8Decode(SubSeq(b, 3, n))
    ELSE IF /\ b[1] >= 224 /\ b[1] <= 239 /\ n >= 3
            /\ IsContinuation(b[2]) /\ IsContinuation(b[3])
            /\ c3 >= 2048 /\ ~(c3 >= 55296 /\ c3 <= 57343)
    THEN <<c3 >> \o Utf8Decode(SubSeq(b, 4, n))
    ELSE IF /\ b[1] >= 240 /\ b[1] <= 244 /\ n >= 4
            /\ IsContinuation(b[2]) /\ IsContinuation(b[3]) /\ IsContinuation(b[4])
            /\ c4 >= 65536 /\ c4 <= 1114111
    THEN <<c4 >> \o Utf8Decode(SubSeq(b, 5, n))
    ELSE << 65533 >> \o Utf8Decode(Tail(b))

RECURSIVE CodeUnits(_)
CodeUnits(cps) ==
    IF cps = <<>> THEN <<>>
    ELSE IF cps[1] >= 65536
    THEN <<55296 + (cps[1] - 65536) \div 1024, 56320 + ((cps[1] - 65536) % 1024) >>
         \o CodeUnits(Tail(cps))
    ELSE <<cps[1]>> \o CodeUnits(Tail(cps))

\* new TextDecoder().decode(bytes): UTF-8, not fatal, ignoreBOM false, so a
\* leading U+FEFF is dropped
TextDecode(bytes) ==
    LET cps == Utf8Decode(bytes) IN
    CodeUnits(IF cps # <<>> /\ IsBOM(cps[1]) THEN Tail(cps) ELSE cps)

\* ------------------------------------------------------------- base64
Alphabet ==
    << "A", "B", "C", "D", "E", "F", "G", "H", "I", "J", "K", "L", "M",
       "N", "O", "P", "Q", "R", "S", "T", "U", "V", "W", "X", "Y", "Z",
       "a", "b", "c", "d", "e", "f", "g", "h", "i", "j", "k", "l", "m",
       "n", "o", "p", "q", "r", "s", "t", "u", "v", "w", "x", "y", "z",
       "0", "1", "2", "3", "4", "5", "6", "7", "8", "9", "+", "/" >>
AlphabetChars == { Alphabet[i] : i \in 1..64 }
SextetOf == [ c \in AlphabetChars |-> (CHOOSE i \in 1..64 : Alphabet[i] = c) - 1 ]
Sextet(c) == SextetOf[c]
Digit(n) == Alphabet[n + 1]

\* btoa of the binary string of a byte array
RECURSIVE Btoa(_)
Btoa(b) ==
    IF b = <<>> THEN <<>>
    ELSE IF Len(b) = 1
    THEN << Digit(b[1] \div 4), Digit((b[1] % 4) * 16), "=", "=" >>
    ELSE IF Len(b) = 2
    THEN << Digit(b[1] \div 4), Digit((b[1] % 4) * 16 + b[2] \div 16),
            Digit((b[2] % 16) * 4), "=" >>
    ELSE << Digit(b[1] \div 4), Digit((b[1] % 4) * 16 + b[2] \div 16),
            Digit((b[2] % 16) * 4 + b[3] \div 64), Digit(b[3] % 64) >>
         \o Btoa(SubSeq(b, 4, Len(b)))

\* btoa(String.fromCharCode(...buf))
BufferToBase64(buf) == Btoa(buf)

Thrown == [threw |-> TRUE, bytes |-> <<>>]
Returned(bytes) == [threw |-> FALSE, bytes |-> bytes]

RECURSIVE SextetsToBytes(_)
\* whole groups of four digits give three bytes; of a last group of two or
\* three digits the bits beyond the last whole byte are dropped unread
SextetsToBytes(d) ==
    IF Len(d) < 2 THEN <<>>
    ELSE IF Len(d) = 2
    THEN << d[1] * 4 + d[2] \div 16 >>
    ELSE IF Len(d) = 3
    THEN << d[1] * 4 + d[2] \div 16, (d[2] % 16) * 16 + d[3] \div 4 >>
    ELSE << d[1] * 4 + d[2] \div 16, (d[2] % 16) * 16 + d[3] \div 4,
            (d[3] % 4) * 64 + d[4] >>
         \o SextetsToBytes(SubSeq(d, 5, Len(d)))

\* atob(text), the forgiving base64 decoding of the HTML standard: ASCII
\* whitespace is removed, one or two closing "=" of a text whose length is
\* a multiple of four are removed, and what is left must be digits of the
\* alphabet whose number is not 1 modulo 4
Atob(text) ==
    LET noSpace == SelectSeq(text, LAMBDA c : c # " ")
        n == Len(noSpace)
        pad == IF n % 4 = 0 /\ n > 0 /\ noSpace[n] = "="
               THEN IF noSpace[n - 1] = "=" THEN 2 ELSE 1
               ELSE 0
        digits == SubSeq(noSpace, 1, n - pad)
    IN
    IF Len(digits) % 4 = 1 THEN Thrown
    ELSE IF \E i \in 1..Len(digits) : digits[i] \notin AlphabetChars THEN Thrown
    ELSE Returned(SextetsToBytes([i \in 1..Len(digits) |-> Sextet(digits[i])]))

\* the value of a destructured array element that does not exist
Undefined == << "undefined" >>
\* String(undefined), which atob(undefined) decodes
UndefinedText == << "u", "n", "d", "e", "f", "i", "n", "e", "d" >>

\* atob(b64), then one byte per character
Base64ToBuffer(b64) == Atob(IF b64 = Undefined THEN UndefinedText ELSE b64)

\* ----------------------------------------------------- payload.split(".")
RECURSIVE Split(_)
Split(text) ==
    IF \A i \in 1..Len(text) : text[i] # "." THEN << text >>
    ELSE LET dot == CHOOSE i \in 1..Len(text) :
                        text[i] = "." /\ \A j \in 1..(i - 1) : text[j] # "."
         IN << SubSeq(text, 1, dot - 1) >> \o Split(SubSeq(text, dot + 1, Len(text)))

\* const [a, b, c] = parts
Element(parts, i) == IF i <= Len(parts) THEN parts[i] ELSE Undefined

\* ---------------------------------------------------- key and cipher
\* navigator.userAgent + (navigator.platform || "web")
Fingerprint(nav) ==
    nav.userAgent \o (IF nav.platform = <<>> THEN << "web" >> ELSE nav.platform)

\* PBKDF2 (SHA-256, 100000 iterations) of the fingerprint and the salt,
\* imported as an AES-GCM key: a key is known by what it was derived from
SubtleKeyFromDeviceInfo_SaltOnly(nav, salt) ==
    [password |-> <<>>, salt |-> salt]

SubtleKeyFromDeviceInfo(nav, salt) ==
    [password |-> Fingerprint(nav), salt |-> salt]

\* AES-GCM is kept to what its callers rely on: the ciphertext is the text
\* under a key stream of (key, iv) followed by a tag over (key, iv, body),
\* and decryption throws unless the tag is the one of its key, iv and body.
RECURSIVE WeightedSum(_, _, _)
WeightedSum(b, i, step) ==
    IF i > Len(b) THEN 0
    ELSE ((step * i + 1) * b[i] + WeightedSum(b, i + 1, step)) % 256

TokenNumber(tok) ==
    CASE tok = "UA1" -> 11 [] tok = "UA2" -> 23 [] tok = "Win32" -> 5
      [] tok = "web" -> 7 [] OTHER -> 1

RECURSIVE PasswordNumber(_, _)
PasswordNumber(p, i) ==
    IF i > Len(p) THEN 0
    ELSE ((2 * i + 1) * TokenNumber(p[i]) + PasswordNumber(p, i + 1)) % 256

KeyStream(key, iv) ==
    (PasswordNumber(key.password, 1) + WeightedSum(key.salt, 1, 2)
     + 3 * WeightedSum(iv, 1, 2) + 1) % 256

Tag(key, iv, body) ==
    [ j \in 1..TagLen |->
        (j * KeyStream(key, iv) + WeightedSum(body, 1, 2 * (j - 1))) % 256 ]

\* crypto.subtle.encrypt({ name: "AES-GCM", iv }, key, data)
AesGcmEncrypt(key, iv, data) ==
    LET body == [ i \in 1..Len(data) |-> (data[i] + KeyStream(key, iv) + i) % 256 ]
    IN body \o Tag(key, iv, body)

\* variant: a cipher without authentication, the tag is not looked at
AesGcmDecrypt_Unauthenticated(key, iv, data) ==
    IF Len(data) < TagLen THEN Thrown
    ELSE Returned([ i \in 1..(Len(data) - TagLen) |->
                      (data[i] + 512 - KeyStream(key, iv) - i) % 256 ])

\* crypto.subtle.decrypt({ name: "AES-GCM", iv }, key, data)
AesGcmDecrypt(key, iv, data) ==
    IF Len(data) < TagLen THEN Thrown
    ELSE LET n == Len(data) - TagLen
             body == SubSeq(data, 1, n)
         IN IF SubSeq(data, n + 1, Len(data)) # Tag(key, iv, body) THEN Thrown
            ELSE Returned([ i \in 1..n |->
                              (body[i] + 512 - KeyStream(key, iv) - i) % 256 ])

\* ------------------------------------------- encryptLocal / decryptLocal
\* variant: writes the salt before the IV
EncryptLocal_SaltFirst(data, iv, salt, nav) ==
    LET key == SubtleKeyFromDeviceInfo(nav, salt)
        cipher == AesGcmEncrypt(key, iv, TextEncode(data))
    IN BufferToBase64(salt) \o << "." >> \o BufferToBase64(iv)
       \o << "." >> \o BufferToBase64(cipher)

\* encryptLocal(data) with the iv and the salt that getRandomValues gave
EncryptLocal(data, iv, salt, nav) ==
    LET key == SubtleKeyFromDeviceInfo(nav, salt)
        cipher == AesGcmEncrypt(key, iv, TextEncode(data))
    IN BufferToBase64(iv) \o << "." >> \o BufferToBase64(salt)
       \o << "." >> \o BufferToBase64(cipher)

\* what a caller of decryptLocal sees: a promise that resolved to null or to
\* a string, or that rejected
ResolvedNull == [rejected |-> FALSE, null |-> TRUE, text |-> <<>>]
ResolvedText(s) == [rejected |-> FALSE, null |-> FALSE, text |-> s]
Rejected == [rejected |-> TRUE, null |-> FALSE, text |-> <<>>]

\* the steps of decryptLocal's try block
DecryptSteps(payload, nav) ==
    LET parts == Split(payload)
        iv == Base64ToBuffer(Element(parts, 1))
        salt == Base64ToBuffer(Element(parts, 2))
        data == Base64ToBuffer(Element(parts, 3))
        key == SubtleKeyFromDeviceInfo(nav, salt.bytes)
        plain == IF iv.threw \/ salt.threw \/ data.threw THEN Thrown
                 ELSE AesGcmDecrypt(key, iv.bytes, data.bytes)
    IN [ decoded |-> ~(iv.threw \/ salt.threw \/ data.threw),
         data |-> data.bytes,
         plain |-> plain ]

\* variant: only the decryption is inside the try block
DecryptLocal_CatchesDecryptOnly(payload, nav) ==
    LET s == DecryptSteps(payload, nav) IN
    IF ~s.decoded THEN Rejected
    ELSE IF s.plain.threw THEN ResolvedNull
    ELSE ResolvedText(TextDecode(s.plain.bytes))

\* decryptLocal(payload): every throw of the try block is caught
DecryptLocal(payload, nav) ==
    LET s == DecryptSteps(payload, nav) IN
    IF ~s.decoded \/ s.plain.threw THEN ResolvedNull
    ELSE ResolvedText(TextDecode(s.plain.bytes))

\* ------------------------------------------------ inputs of the encryptor
Devices ==
    { [userAgent |-> << "UA1" >>, platform |-> << "Win32" >>],
      [userAgent |-> << "UA1" >>, platform |-> <<>>],
      [userAgent |-> << "UA1" >>, platform |-> << "web" >>] }

\* "", "a", "ab", "é", U+FEFF "a", "a" U+FEFF, a high surrogate alone,
\* U+1F600 as a surrogate pair
PlainStrings ==
    { <<>>, << 97 >>, << 97, 98 >>, << 233 >>, << 65279, 97 >>, << 97, 65279 >>,
      << 55296 >>, << 55357, 56832 >> }

Ivs == { [ i \in 1..IvLen |-> 0 ], [ i \in 1..IvLen |-> (37 * i) % 256 ] }
Salts == { [ i \in 1..SaltLen |-> 255 ], [ i \in 1..SaltLen |-> (i * i) % 256 ] }

\* strings that no encryptLocal call made
ForeignPayloads ==
    { << "A" >>, << "A", "A", ".", "A", "A" >>, << ".", "." >>,
      << "!", ".", "A", "A", ".", "A", "A" >>,
      << "A", "A", ".", "A", "A", ".", "A" >>,
      << "A", "A", ".", "A", "A", ".", "A", "A" >>,
      << "A", "A", ".", "A", "A", ".", "A", "A", "A", "A" >> }

NoOrigin == [made |-> FALSE]
Idle == [op |-> "none"]

\* where the third segment of a payload starts
CipherStart(text) ==
    1 + CHOOSE i \in 1..Len(text) :
            text[i] = "." /\ Cardinality({ j \in 1..(i - 1) : text[j] = "." }) = 1

\* the characters one bit away from a digit, a padding or a separator
\* character, a space and a character outside the alphabet
Flip(n, bit) == IF (n \div bit) % 2 = 1 THEN n - bit ELSE n + bit
Replacements(c) ==
    ({ "=", ".", " ", "!", "A" }
     \cup (IF c \in AlphabetChars
           THEN { Digit(Flip(Sextet(c), bit)) : bit \in {1, 2, 4, 8, 16, 32} }
           ELSE {})) \ {c}

\* what is added (modulo 256) to a ciphertext byte to change it
ByteChanges == {1, 17, 128, 255}

EncryptorAtRest ==
    /\ navigator = [userAgent |-> << "UA1" >>, platform |-> << "Win32" >>]
    /\ held = <<>>
    /\ origin = NoOrigin
    /\ res = Idle

\* ---------------------------------------------- actions of the encryptor
changeDevice ==
    /\ \E d \in Devices \ {navigator} : navigator' = d
    /\ res' = Idle
    /\ UNCHANGED <<held, origin>>

\* one payload is followed from the call that makes it
encryptLocal ==
    /\ held = <<>>
    /\ \E data \in PlainStrings, iv \in Ivs, salt \in Salts :
        LET made == EncryptLocal(data, iv, salt, navigator) IN
        /\ held' = made
        /\ origin' = [made |-> TRUE, data |-> data, iv |-> iv, salt |-> salt,
                      fingerprint |-> Fingerprint(navigator),
                      payload |-> made, edited |-> FALSE, appended |-> FALSE]
    /\ res' = Idle
    /\ UNCHANGED navigator

\* one character of the ciphertext segment of a held payload is changed
tamperCiphertext ==
    /\ origin.made /\ ~origin.edited
    /\ \E i \in CipherStart(held)..Len(held) :
         \E c \in Replacements(held[i]) :
            held' = [held EXCEPT ![i] = c]
    /\ origin' = [origin EXCEPT !.edited = TRUE]
    /\ res' = Idle
    /\ UNCHANGED navigator

\* the decoded ciphertext of a payload
CipherBytes(text) == Base64ToBuffer(Element(Split(text), 3))

\* one byte of the ciphertext of a stored payload is changed and the segment
\* is encoded again
tamperCipherByte ==
    /\ origin.made /\ ~origin.edited
    /\ LET cipher == CipherBytes(held).bytes IN
       \E i \in 1..Len(cipher), d \in ByteChanges :
          held' = SubSeq(held, 1, CipherStart(held) - 1)
                  \o BufferToBase64([cipher EXCEPT ![i] = (cipher[i] + d) % 256])
    /\ origin' = [origin EXCEPT !.edited = TRUE]
    /\ res' = Idle
    /\ UNCHANGED navigator

\* segments that may follow the three of a payload
ExtraSegments == { <<>>, << "A", "A" >>, << "A", "A", ".", "A" >> }

\* a "." and more text are appended to a payload as encryptLocal made it
appendSegment ==
    /\ origin.made /\ ~origin.edited
    /\ \E extra \in ExtraSegments : held' = held \o << "." >> \o extra
    /\ origin' = [origin EXCEPT !.edited = TRUE, !.appended = TRUE]
    /\ res' = Idle
    /\ UNCHANGED navigator

foreignPayload ==
    /\ held = <<>>
    /\ \E p \in ForeignPayloads : held' = p
    /\ origin' = NoOrigin
    /\ res' = Idle
    /\ UNCHANGED navigator

decryptLocal ==
    /\ res' = [op |-> "decryptLocal", payload |-> held,
               fingerprint |-> Fingerprint(navigator),
               ret |-> DecryptLocal(held, navigator)]
    /\ UNCHANGED <<navigator, held, origin>>

\* ================================================= lib/utils.ts: withRetry
MaxRetries == 4         \* largest `retries` argument
MaxDelayMs == 3         \* largest `delayMs` argument, in clock units

RetryAtRest == retry = [phase |-> "idle"]

\* withRetry(fn, retries, delayMs) is called: `let attempt = 0` and the
\* first `await fn()` is started
withRetry ==
    /\ retry.phase = "idle"
    /\ \E retries \in (0 - 1)..MaxRetries, delayMs \in 1..MaxDelayMs :
         retry' = [phase |-> "calling", retries |-> retries, delayMs |-> delayMs,
                   attempt |-> 0, calls |-> 1, waits |-> <<>>]

\* the pending call of fn resolves: `return await fn()`
fnResolves ==
    /\ retry.phase = "calling"
    /\ retry' = [retry EXCEPT !.phase = "resolved"] @@ [value |-> retry.calls]

\* `delayMs * attempt`
BackoffDelay(delayMs, attempt) == delayMs * attempt

\* variant: one more call is made before giving up
GivesUp_OneLate(attempt, retries) == attempt > retries + 1

\* `if (attempt > retries) throw e`
GivesUp(attempt, retries) == attempt > retries

\* the pending call of fn rejects with its own error: the catch block
fnRejects ==
    /\ retry.phase = "calling"
    /\ LET attempt == retry.attempt + 1 IN
       IF GivesUp(attempt, retry.retries)
       THEN retry' = [retry EXCEPT !.phase = "rejected", !.attempt = attempt]
                     @@ [error |-> retry.calls]
       ELSE retry' = [retry EXCEPT
                        !.phase = "waiting", !.attempt = attempt,
                        !.waits = Append(@, BackoffDelay(retry.delayMs, attempt))]

\* the timer of the wait fires: the loop calls fn again
retryTimer ==
    /\ retry.phase = "waiting"
    /\ retry' = [retry EXCEPT !.phase = "calling", !.calls = @ + 1]

\* ================================== useSession: mounting, effects, timers
MaxIntervals == 2       \* the hook is not mounted again over this many expiry intervals

Unmounted ==
    [mounted |-> FALSE, walletDue |-> FALSE, sessionDue |-> FALSE,
     restoreTimer |-> FALSE, listeners |-> 0, activityIntervals |-> 0,
     expiryIntervals |-> 0, activityCleanup |-> FALSE, expiryCleanup |-> FALSE]

HookAtRest == wallet = NoAddress /\ fiber = Unmounted

\* `return () => clearTimeout(timer)`
RestoreCleanup(f) == [f EXCEPT !.restoreTimer = FALSE]

\* the cleanup the activity effect returned: removes the four listeners and
\* clears activityIntervalRef.current
ActivityCleanup(f) ==
    IF f.activityCleanup
    THEN [f EXCEPT !.listeners = @ - 1, !.activityIntervals = @ - 1,
                   !.activityCleanup = FALSE]
    ELSE f

\* the cleanup the expiry effect returned: clears expiryCheckIntervalRef.current
ExpiryCleanup(f) ==
    IF f.expiryCleanup
    THEN [f EXCEPT !.expiryIntervals = @ - 1, !.expiryCleanup = FALSE]
    ELSE f

\* the instance is removed: by an unmount, or by React after an effect threw
Removed(f) ==
    [ExpiryCleanup(ActivityCleanup(RestoreCleanup(f))) EXCEPT
        !.mounted = FALSE, !.walletDue = FALSE, !.sessionDue = FALSE]

\* what the auto-sync effect did: whether it ran its body, threw, called
\* createNewSession (and the session that returned), and the storage it left
Synced(ran, threw, created, ls, s) ==
    [ran |-> ran, threw |-> threw, created |-> created, store |-> ls, session |-> s]

\* createNewSession(walletAddress) of the effect, r the result of createSession
SyncCreate(r) == Synced(TRUE, FALSE, TRUE, r.store, r.ret)
\* updateLastActivity() of the effect, u its result
SyncTouch(u) == Synced(TRUE, u.threw, FALSE, u.store, Null)

\* the effect's body once getSession() gave g
SyncOn(g, t, w) ==
    IF g.threw THEN Synced(TRUE, TRUE, FALSE, g.store, Null)
    ELSE IF g.ret = Null \/ g.ret.walletAddress # w
    THEN SyncCreate(CreateSession(g.store, t, w, sessionExpiryMs))
    ELSE SyncTouch(UpdateLastActivity(g.store, t))

\* the auto-sync effect with smartWalletPubkey w (autoSync is left at true)
AutoSync(ls, t, w) ==
    IF w = NoAddress THEN Synced(FALSE, FALSE, FALSE, ls, Null)
    ELSE SyncOn(GetSession(ls, t), t, w)

\* checkExpiry once its three reads gave a, in a closure over `captured`
CheckExpiryOn(a, captured) ==
    LET expired == a.remaining = 0 /\ a.storedSession # Null
        restore == /\ a.storedSession # Null
                   /\ (captured = Null
                       \/ captured.walletAddress # a.storedSession.walletAddress)
    IN
    IF a.threw
    THEN [threw |-> TRUE, store |-> a.store, set |-> "none", stored |-> Null,
          remaining |-> 0, expiringSoon |-> FALSE]
    ELSE [threw |-> FALSE,
          store |-> IF expired THEN ClearSession(a.store) ELSE a.store,
          set |-> IF expired THEN "null" ELSE IF restore THEN "stored" ELSE "none",
          stored |-> a.storedSession,
          remaining |-> a.remaining, expiringSoon |-> a.expiringSoon]

CheckExpiry(ls, t, captured) == CheckExpiryOn(ReadAll(ls, t), captured)

\* the end of a flush: f1 is the instance after the cleanups, sync what the
\* auto-sync effect did and chk what the expiry effect's checkExpiry() did
Flushed(f1, rendered, bySession, sync, chk) ==
    LET f2 == IF bySession /\ rendered # Null
              THEN [f1 EXCEPT !.listeners = @ + 1, !.activityIntervals = @ + 1,
                              !.activityCleanup = TRUE]
              ELSE f1
        f3 == IF bySession THEN [f2 EXCEPT !.expiryIntervals = @ + 1] ELSE f2
        final == IF bySession /\ chk.set = "null" THEN Null
                 ELSE IF bySession /\ chk.set = "stored" THEN chk.stored
                 ELSE IF sync.created THEN sync.session
                 ELSE rendered
        fresh == (bySession /\ chk.set = "stored")
                 \/ (sync.created /\ ~(bySession /\ chk.set = "null"))
        changed == fresh \/ (final = Null /\ rendered # Null)
    IN
    IF sync.threw
    THEN [threw |-> TRUE, sync |-> sync, store |-> sync.store, fiber |-> Removed(f1),
          session |-> Null, timeRemaining |-> 0, isExpiringSoon |-> FALSE]
    ELSE IF bySession /\ chk.threw
    THEN [threw |-> TRUE, sync |-> sync, store |-> chk.store, fiber |-> Removed(f3),
          session |-> Null, timeRemaining |-> 0, isExpiringSoon |-> FALSE]
    ELSE [threw |-> FALSE, sync |-> sync,
          store |-> IF bySession THEN chk.store ELSE sync.store,
          fiber |-> [f3 EXCEPT !.expiryCleanup = IF bySession THEN TRUE ELSE @,
                               !.walletDue = FALSE, !.sessionDue = changed],
          session |-> final,
          timeRemaining |-> IF bySession THEN chk.remaining
                            ELSE IF sync.created THEN sessionExpiryMs
                            ELSE timeRemaining,
          isExpiringSoon |-> IF bySession THEN chk.expiringSoon
                             ELSE IF sync.created THEN FALSE
                             ELSE isExpiringSoon]

\* the expiry effect's body follows the auto-sync effect's
AfterSync(f1, rendered, t, bySession, sync) ==
    Flushed(f1, rendered, bySession, sync, CheckExpiry(sync.store, t, rendered))

\* One flush of the hook's effects after a render with session `rendered`:
\* the cleanups of the effects whose dependencies changed, then their
\* bodies in the order of the source (auto-sync, activity, expiry).  The
\* activity and expiry effects depend on session and run when bySession
\* holds.  An effect that throws registers no cleanup and React removes the
\* component, which runs the cleanups that are registered.
RunEffects(f0, rendered, ls, t, w, bySession) ==
    AfterSync(IF bySession THEN ExpiryCleanup(ActivityCleanup(f0)) ELSE f0,
              rendered, t, bySession, AutoSync(ls, t, w))

\* the state an effect flush e leaves
Commit(op, e) ==
    /\ fiber' = e.fiber
    /\ localStorage' = e.store
    /\ session' = e.session
    /\ timeRemaining' = e.timeRemaining
    /\ isExpiringSoon' = e.isExpiringSoon
    /\ out' = Done(op, [wallet |-> wallet], e.sync, e.threw)
    /\ UNCHANGED <<now, wallet>>

\* the component that uses the hook is mounted: useState initial values,
\* the restore effect's setTimeout, and the first run of every effect
mount ==
    /\ ~fiber.mounted
    /\ fiber.expiryIntervals < MaxIntervals
    /\ preferences' = GetUserPreferences(localStorage)
    /\ \E e \in { RunEffects([fiber EXCEPT !.mounted = TRUE, !.restoreTimer = TRUE],
                              Null, localStorage, now, wallet, TRUE) } :
         Commit("mount", e)

unmount ==
    /\ fiber.mounted
    /\ fiber' = Removed(fiber)
    /\ session' = Null
    /\ timeRemaining' = 0
    /\ isExpiringSoon' = FALSE
    /\ out' = Done("unmount", Null, Null, FALSE)
    /\ UNCHANGED <<now, localStorage, preferences, wallet>>

\* the wallet connects, disconnects or changes its account
walletChange ==
    /\ \E w \in (Addresses \cup {NoAddress}) \ {wallet} : wallet' = w
    /\ fiber' = [fiber EXCEPT !.walletDue = fiber.mounted]
    /\ out' = Done("walletChange", Null, Null, FALSE)
    /\ UNCHANGED <<now, localStorage, hookVars>>

\* React runs the effects whose dependencies the last render changed.  It
\* does so before the next timer or event is served, so every callback runs
\* with the session of the latest render in its closure.
EffectsDue == fiber.mounted /\ (fiber.walletDue \/ fiber.sessionDue)

runEffects ==
    /\ EffectsDue
    /\ \E e \in { RunEffects(fiber, session, localStorage, now, wallet,
                              fiber.sessionDue) } :
         Commit("runEffects", e)
    /\ UNCHANGED preferences

\* the 50 ms timer of the restore effect fires
restoreTimeout ==
    /\ fiber.restoreTimer
    /\ \E a \in { ReadAll(localStorage, now) } :
       /\ out' = Done("restoreTimeout", Null, Null, a.threw)
       /\ localStorage' = a.store
       /\ IF a.threw
          THEN /\ fiber' = [fiber EXCEPT !.restoreTimer = FALSE]
               /\ UNCHANGED hookVars
          ELSE /\ session' = a.storedSession
               /\ preferences' = GetUserPreferences(a.store)
               /\ timeRemaining' = a.remaining
               /\ isExpiringSoon' = a.expiringSoon
               /\ fiber' = [fiber EXCEPT
                              !.restoreTimer = FALSE,
                              !.sessionDue = @ \/ a.storedSession # Null
                                               \/ session # Null]
    /\ UNCHANGED <<now, wallet>>

\* one of the four window listeners of the activity effect is called
onActivity ==
    /\ fiber.listeners > 0
    /\ LET r == UpdateLastActivity(localStorage, now) IN
        /\ localStorage' = r.store
        /\ out' = Out("handleActivity", Null, r)
    /\ UNCHANGED <<now, hookVars, wallet, fiber>>

\* the interval of the activity effect fires
onActivityInterval ==
    /\ fiber.activityIntervals > 0
    /\ LET h == HasValidSession(localStorage, now)
           r == IF h.threw \/ ~h.ret THEN Result(Null, h.store, h.threw)
                ELSE UpdateLastActivity(h.store, now)
       IN /\ localStorage' = r.store
          /\ out' = Out("activityInterval", Null, r)
    /\ UNCHANGED <<now, hookVars, wallet, fiber>>

\* a component calls the endSession callback of the mounted hook; the
\* setSession(null) of a hook that held a session makes the effects due
onEnd ==
    /\ fiber.mounted
    /\ \E keepPreferences \in BOOLEAN :
         /\ localStorage' = ClearAllSessionData(localStorage, keepPreferences)
         /\ preferences' = IF keepPreferences THEN preferences ELSE DefaultPreferences
         /\ out' = Done("endSession", [keepPreferences |-> keepPreferences], Null, FALSE)
    /\ session' = Null
    /\ timeRemaining' = 0
    /\ isExpiringSoon' = FALSE
    /\ fiber' = [fiber EXCEPT !.sessionDue = @ \/ session # Null]
    /\ UNCHANGED <<now, wallet>>

\* an interval of an expiry effect fires; the setState calls of a callback
\* whose component is gone do nothing
onExpiryInterval ==
    /\ fiber.expiryIntervals > 0
    /\ \E c \in { CheckExpiry(localStorage, now, session) } :
       LET final == IF c.set = "null" THEN Null
                    ELSE IF c.set = "stored" THEN c.stored ELSE session
       IN
       /\ localStorage' = c.store
       /\ out' = Done("checkExpiry", Null, Null, c.threw)
       /\ IF c.threw \/ ~fiber.mounted
          THEN UNCHANGED <<hookVars, fiber>>
          ELSE /\ session' = final
               /\ timeRemaining' = c.remaining
               /\ isExpiringSoon' = c.expiringSoon
               /\ fiber' = [fiber EXCEPT
                              !.sessionDue = @ \/ c.set = "stored"
                                               \/ (c.set = "null" /\ session # Null)]
               /\ UNCHANGED preferences
    /\ UNCHANGED <<now, wallet>>

\* ================================ useTransfer / useUsdcTransfer: transfer
\* An amount is the text of the input field, a sequence of characters.
\* parseFloat skips leading white space, reads an optional sign, digits and
\* a fraction, and ignores what follows; the texts of the model have no
\* exponent.  A parsed number is the fraction num / den with den a power
\* of ten; balances are whole numbers of tokens.
DecimalDigits == <<"0", "1", "2", "3", "4", "5", "6", "7", "8", "9">>
IsDecimalDigit(c) == \E i \in DOMAIN DecimalDigits : DecimalDigits[i] = c
DecimalValue(c) == (CHOOSE i \in DOMAIN DecimalDigits : DecimalDigits[i] = c) - 1

NaN == [nan |-> TRUE]
Num(n, d) == [nan |-> FALSE, num |-> n, den |-> d]

RECURSIVE SkipWhite(_)
SkipWhite(s) == IF s # <<>> /\ s[1] = " " THEN SkipWhite(Tail(s)) ELSE s

RECURSIVE DigitPrefix(_)
DigitPrefix(s) ==
    IF s # <<>> /\ IsDecimalDigit(s[1]) THEN <<s[1]>> \o DigitPrefix(Tail(s)) ELSE <<>>

RECURSIVE DecimalOf(_)
DecimalOf(ds) ==
    IF ds = <<>> THEN 0
    ELSE DecimalOf(SubSeq(ds, 1, Len(ds) - 1)) * 10 + DecimalValue(ds[Len(ds)])

RECURSIVE PowerOfTen(_)
PowerOfTen(k) == IF k = 0 THEN 1 ELSE 10 * PowerOfTen(k - 1)

ParseFloat(s) ==
    LET t == SkipWhite(s)
        signed == t # <<>> /\ t[1] \in {"-", "+"}
        negative == t # <<>> /\ t[1] = "-"
        u == IF signed THEN Tail(t) ELSE t
        whole == DigitPrefix(u)
        rest == SubSeq(u, Len(whole) + 1, Len(u))
        fraction == IF rest # <<>> /\ rest[1] = "." THEN DigitPrefix(Tail(rest)) ELSE <<>>
        magnitude == DecimalOf(whole \o fraction)
    IN
    IF whole = <<>> /\ fraction = <<>> THEN NaN
    ELSE Num(IF negative THEN 0 - magnitude ELSE magnitude, PowerOfTen(Len(fraction)))

\* usdcTransfer.service.ts: validateUsdcAmount
ValidateUsdcAmount(amount, minAmount) ==
    LET parsed == ParseFloat(amount) IN
    IF parsed.nan \/ parsed.num <= minAmount * parsed.den THEN Null ELSE parsed

\* validateAmount of lib/services: the amount must parse and be greater
\* than the minimum
ValidateAmount(amount, minAmount) ==
    LET parsed == ParseFloat(amount) IN
    IF parsed.nan \/ parsed.num <= minAmount * parsed.den THEN Null ELSE parsed

PublicKey(address) == [kind |-> "pubkey", key |-> address]

\* validateAddress of lib/services: the public key of a well-formed address,
\* and null for any other text
ValidateAddress(recipient) ==
    IF recipient \in Addresses THEN PublicKey(recipient) ELSE Null

\* `!amountValue`
Falsy(v) == v = Null \/ v.num = 0

Known(n) == [kind |-> "number", val |-> n]
\* `balance !== null && amountValue > balance`
Exceeds(amountValue, balance) ==
    balance # Null /\ amountValue.num > balance.val * amountValue.den

NoToast == "none"
NotConnectedToast == "Please connect your wallet first"
InvalidRecipientToast == "Invalid recipient address"
InvalidAmountToast == "Invalid amount. Must be greater than 0"
InsufficientToast == "Insufficient balance"
InstructionToast == "Failed to create USDC transfer instruction"

\* the pre-flight checks of useTransfer.transfer with the hook's isConnected,
\* smartWalletPubkey and balance: the toast of the first check that fails
TransferChecks(isConnected, pubkey, balance, recipient, amount) ==
    IF ~isConnected \/ pubkey = NoAddress THEN NotConnectedToast
    ELSE IF ValidateAddress(recipient) = Null THEN InvalidRecipientToast
    ELSE IF Falsy(ValidateAmount(amount, 0)) THEN InvalidAmountToast
    ELSE IF Exceeds(ValidateAmount(amount, 0), balance) THEN InsufficientToast
    ELSE NoToast

\* variant: the balance is not looked at
UsdcTransferChecks_NoBalanceCheck(isConnected, pubkey, balance, recipient, amount) ==
    IF ~isConnected \/ pubkey = NoAddress THEN NotConnectedToast
    ELSE IF ValidateAddress(recipient) = Null THEN InvalidRecipientToast
    ELSE IF Falsy(ValidateUsdcAmount(amount, 0)) THEN InvalidAmountToast
    ELSE NoToast

\* the pre-flight checks of useUsdcTransfer.transfer
UsdcTransferChecks(isConnected, pubkey, balance, recipient, amount) ==
    IF ~isConnected \/ pubkey = NoAddress THEN NotConnectedToast
    ELSE IF ValidateAddress(recipient) = Null THEN InvalidRecipientToast
    ELSE IF Falsy(ValidateUsdcAmount(amount, 0)) THEN InvalidAmountToast
    ELSE IF Exceeds(ValidateUsdcAmount(amount, 0), balance) THEN InsufficientToast
    ELSE NoToast

Hooks == {"useTransfer", "useUsdcTransfer"}
Balances == {Null, Known(1), Known(2)}
Recipients == Addresses \cup {"not-an-address"}
Amounts ==
    { <<>>, <<"0">>, <<"3">>, <<"-", "1">>, <<".", "5">>, <<"0", ".", "0">>,
      <<" ", "2">>, <<"1", "x">>, <<"x", "1">> }
Signature == [kind |-> "signature"]

NoCall == [phase |-> "none"]
TransferAtRest ==
    xfer = [isConnected |-> FALSE, pubkey |-> NoAddress,
            balance |-> [h \in Hooks |-> Null], call |-> NoCall]

\* a call of transfer is between its start and its return
InFlight == xfer.call.phase \in {"creating", "executing"}

\* a call of transfer(recipient, amount) of hook h starts: what the closure
\* holds, and nothing done so far
Started(h, recipient, amount) ==
    [hook |-> h, recipient |-> recipient, amount |-> amount,
     seen |-> [isConnected |-> xfer.isConnected, pubkey |-> xfer.pubkey,
               balance |-> xfer.balance[h]],
     phase |-> "checking", toast |-> NoToast, executed |-> FALSE,
     refreshed |-> FALSE, ret |-> Null]

\* `toast.error(...); return null;`
Refused(c, why) == [c EXCEPT !.phase = "returned", !.toast = why, !.ret = Null]
\* `await execute([instruction])` is reached
Executing(c) == [c EXCEPT !.phase = "executing", !.executed = TRUE]

\* useWallet() gives the hooks another connection state
walletUpdate ==
    /\ \E c \in BOOLEAN, k \in {NoAddress, "AddrA"} :
         /\ <<c, k>> # <<xfer.isConnected, xfer.pubkey>>
         /\ xfer' = [xfer EXCEPT !.isConnected = c, !.pubkey = k]

\* useSolBalance() / useUsdcBalance() gives a hook another balance
balanceUpdate ==
    /\ \E h \in Hooks :
         \E b \in Balances \ {xfer.balance[h]} :
            xfer' = [xfer EXCEPT !.balance[h] = b]

\* useTransfer.transfer(recipient, amount), up to its await of execute;
\* createTransferInstruction returns (made) or throws
transfer ==
    /\ ~InFlight
    /\ \E recipient \in Recipients, amount \in Amounts, made \in BOOLEAN :
         LET c == Started("useTransfer", recipient, amount)
             why == TransferChecks(xfer.isConnected, xfer.pubkey,
                                   xfer.balance["useTransfer"], recipient, amount)
         IN xfer' = [xfer EXCEPT !.call =
                        IF why # NoToast THEN Refused(c, why)
                        ELSE IF made THEN Executing(c)
                        ELSE [c EXCEPT !.phase = "rejected"]]

\* useUsdcTransfer.transfer(recipient, amount), up to its await of
\* createUsdcTransferInstruction
usdcTransfer ==
    /\ ~InFlight
    /\ \E recipient \in Recipients, amount \in Amounts :
         LET c == Started("useUsdcTransfer", recipient, amount)
             why == UsdcTransferChecks(xfer.isConnected, xfer.pubkey,
                                       xfer.balance["useUsdcTransfer"], recipient, amount)
         IN xfer' = [xfer EXCEPT !.call =
                        IF why # NoToast THEN Refused(c, why)
                        ELSE [c EXCEPT !.phase = "creating"]]

\* createUsdcTransferInstruction settles: execute is called, or the catch
\* block shows the error and returns null
instructionSettles ==
    /\ xfer.call.phase = "creating"
    /\ \E made \in BOOLEAN :
         xfer' = [xfer EXCEPT !.call =
                     IF made THEN Executing(@) ELSE Refused(@, InstructionToast)]

\* execute settles with a signature or with null: `if (sig) refreshBalance();
\* return sig;`
executeSettles ==
    /\ xfer.call.phase = "executing"
    /\ \E sig \in {Null, Signature} :
         xfer' = [xfer EXCEPT !.call =
                     [@ EXCEPT !.phase = "returned", !.ret = sig,
                               !.refreshed = (sig # Null)]]

\* ====================================== useOnboarding / GettingStartedWizard
StepsLength == 5        \* steps.length

\* localStorage["LazorKey_onboarding_completed"] after setItem(key, "true")
TrueItem == [kind |-> "text", val |-> "true"]

\* the wizard instance before it is mounted: useState(false), useState(true),
\* useState(0); closure is the currentStep its handlers were rendered with
NotMounted(o) ==
    [o EXCEPT !.mounted = FALSE, !.isCompleted = FALSE, !.isLoading = TRUE,
              !.currentStep = 0, !.closure = 0]

\* another component's instance of useOnboarding, before it is mounted
Unused == [mounted |-> FALSE, isCompleted |-> FALSE, isLoading |-> TRUE]

OnboardingAtRest ==
    onboarding = [item |-> NoItem, mounted |-> FALSE, isCompleted |-> FALSE,
                  isLoading |-> TRUE, currentStep |-> 0, closure |-> 0,
                  completedBy |-> "none", laterMount |-> FALSE,
                  other |-> Unused]

\* the wizard renders its step: `if (isLoading || isCompleted) return null`
Shown(o) == o.mounted /\ ~o.isLoading /\ ~o.isCompleted

\* variant: the stored flag is not looked at
LoadCompleted_IgnoresFlag(item) == FALSE

\* `localStorage.getItem(ONBOARDING_STORAGE_KEY) === "true"`
LoadCompleted(item) == item = TrueItem

\* completeOnboarding(), called by the handler `by`
CompleteOnboarding(o, by) ==
    [o EXCEPT !.item = TrueItem, !.isCompleted = TRUE, !.completedBy = by]

HandleNext(o) ==
    IF o.closure < StepsLength - 1
    THEN [o EXCEPT !.currentStep = o.closure + 1]
    ELSE CompleteOnboarding(o, "next")

HandlePrevious(o) ==
    IF o.closure > 0 THEN [o EXCEPT !.currentStep = o.closure - 1] ELSE o

HandleSkip(o) == CompleteOnboarding(o, "skip")

\* the page that holds the wizard is mounted
wizardMount ==
    /\ ~onboarding.mounted
    /\ onboarding' = [NotMounted(onboarding) EXCEPT
                         !.mounted = TRUE,
                         !.laterMount = (onboarding.completedBy # "none")]

wizardUnmount ==
    /\ onboarding.mounted
    /\ onboarding' = NotMounted(onboarding)

\* the effect of useOnboarding after the first render
loadEffect ==
    /\ onboarding.mounted
    /\ onboarding.isLoading
    /\ onboarding' = [onboarding EXCEPT
                         !.isCompleted = LoadCompleted(onboarding.item),
                         !.isLoading = FALSE]

\* the wizard renders again after a setCurrentStep
render ==
    /\ onboarding.mounted
    /\ onboarding.closure # onboarding.currentStep
    /\ onboarding' = [onboarding EXCEPT !.closure = onboarding.currentStep]

handleNext ==
    /\ Shown(onboarding)
    /\ onboarding' = HandleNext(onboarding)

handlePrevious ==
    /\ Shown(onboarding)
    /\ onboarding' = HandlePrevious(onboarding)

handleSkip ==
    /\ Shown(onboarding)
    /\ onboarding' = HandleSkip(onboarding)

\* another component that uses the hook is mounted or unmounted
otherMount ==
    /\ onboarding' = [onboarding EXCEPT
                         !.other = IF @.mounted THEN Unused
                                   ELSE [Unused EXCEPT !.mounted = TRUE]]

\* the effect of that instance
otherLoadEffect ==
    /\ onboarding.other.mounted
    /\ onboarding.other.isLoading
    /\ onboarding' = [onboarding EXCEPT
                         !.other.isCompleted = LoadCompleted(onboarding.item),
                         !.other.isLoading = FALSE]

\* resetOnboarding() of that instance
resetOnboarding ==
    /\ onboarding.other.mounted
    /\ onboarding' = [onboarding EXCEPT !.item = NoItem, !.completedBy = "none",
                                         !.laterMount = FALSE,
                                         !.other.isCompleted = FALSE]

\* ==================================== useSolBalance / useUsdcBalance
MaxPeriods == 2         \* the wallet connects at most this many times

\* who starts a request: the auto-fetch effect, or a caller of refresh()
Starters == {"auto", "manual"}
\* what a request can resolve to
Fetched == {Known(1), Known(2)}
NoError == "none"
FetchError == "Failed to fetch balance"

\* the hook after its first render with a disconnected wallet: useState(null),
\* useState(false), useState(null), useRef(false).  period counts the
\* connects; pending holds the requests in flight, each with the period it
\* was started in; shownFrom is the period of the request whose result is
\* in balance; autoFetches counts the auto-fetches of the current period.
BalanceHook(h) ==
    [hook |-> h, isConnected |-> FALSE, pubkey |-> NoAddress,
     balance |-> Null, loading |-> FALSE, error |-> NoError, hasFetched |-> FALSE,
     period |-> 0, pending |-> {}, shownFrom |-> 0, autoFetches |-> 0]

BalanceAtRest == bal = BalanceHook("useSolBalance")

\* refresh() up to its await: `if (!smartWalletPubkey) return;
\* setLoading(true); setError(null);` and the request
Refresh(b, starter) ==
    IF b.pubkey = NoAddress THEN b
    ELSE [b EXCEPT !.loading = TRUE, !.error = NoError,
                   !.pending = @ \cup {[period |-> b.period, by |-> starter]}]

\* the auto-fetch effect
AutoFetchEffect(b) ==
    IF b.isConnected /\ b.pubkey # NoAddress /\ ~b.hasFetched
    THEN [Refresh([b EXCEPT !.hasFetched = TRUE], "auto") EXCEPT !.autoFetches = @ + 1]
    ELSE b

\* the reset effect: `if (!isConnected) { setBalance(null);
\* hasFetchedRef.current = false; }`
ResetEffect(b) ==
    IF ~b.isConnected
    THEN [b EXCEPT !.balance = Null, !.shownFrom = 0, !.hasFetched = FALSE]
    ELSE b

\* the wallet connects with its first account: the render and the two
\* effects that follow it
connect ==
    /\ ~bal.isConnected
    /\ bal.period < MaxPeriods
    /\ bal' = ResetEffect(AutoFetchEffect(
                 [bal EXCEPT !.isConnected = TRUE, !.pubkey = "AddrA",
                             !.period = @ + 1, !.autoFetches = 0]))

\* the wallet disconnects
disconnect ==
    /\ bal.isConnected
    /\ bal' = ResetEffect(AutoFetchEffect(
                 [bal EXCEPT !.isConnected = FALSE, !.pubkey = NoAddress]))

\* the connected wallet changes its account: smartWalletPubkey is a
\* dependency of refresh and of the auto-fetch effect
accountChange ==
    /\ bal.isConnected
    /\ \E k \in Addresses \ {bal.pubkey} :
         bal' = AutoFetchEffect([bal EXCEPT !.pubkey = k])

\* a component calls refresh()
refreshBalance ==
    /\ bal' = Refresh(bal, "manual")

\* a request resolves: `setBalance(bal)` and `setLoading(false)`
fetchResolves ==
    /\ \E p \in bal.pending, v \in Fetched :
         bal' = [bal EXCEPT !.balance = v, !.shownFrom = p.period,
                            !.loading = FALSE, !.pending = @ \ {p}]

\* a request rejects: `setError(message)` and `setLoading(false)`;
\* useUsdcBalance also sets the balance to 0
fetchRejects ==
    /\ \E p \in bal.pending :
         bal' = [bal EXCEPT
                    !.error = FetchError, !.loading = FALSE, !.pending = @ \ {p},
                    !.balance = IF bal.hook = "useUsdcBalance" THEN Known(0) ELSE @,
                    !.shownFrom = IF bal.hook = "useUsdcBalance" THEN p.period ELSE @]

\* ============================== lib/utils/errorHandler.ts: parseError
\* errorMessage.includes(sub): sub occurs in s as a run of characters
Includes(s, sub) ==
    \E i \in 0..(Len(s) - Len(sub)) : SubSeq(s, i + 1, i + Len(sub)) = sub

\* `error instanceof Error ? error.message : String(error)`
ErrorMessage(error) ==
    CASE error.kind = "Error" -> error.message
      [] error.kind = "string" -> error.text
      [] error.kind = "null" -> "null"
      [] error.kind = "undefined" -> "undefined"

\* the conditions of the nine if statements, in the order of the source
IsCancelled(m) ==
    Includes(m, "NotAllowedError") \/ Includes(m, "cancelled") \/ Includes(m, "canceled")
IsUnsupported(m) == Includes(m, "PublicKeyCredential") \/ Includes(m, "WebAuthn")
IsSigningFailed(m) == Includes(m, "Signing failed")

\* variant: only the lower-case spelling is looked for
IsInsufficient_LowerCaseOnly(m) == Includes(m, "insufficient")

IsInsufficient(m) == Includes(m, "insufficient") \/ Includes(m, "Insufficient")
IsTooLarge(m) == Includes(m, "Transaction too large")
IsTimeout(m) == Includes(m, "timeout") \/ Includes(m, "Timeout")
IsNetwork(m) ==
    Includes(m, "fetch") \/ Includes(m, "network") \/ Includes(m, "Failed to fetch")
IsRateLimit(m) == Includes(m, "429") \/ Includes(m, "rate limit")
IsRpc(m) == Includes(m, "RPC") \/ Includes(m, "rpc")

\* an ErrorInfo: its message, category and retryable, and whether it has a
\* docsLink (the recovery text goes with the message and is left out)
ErrorInfo(message, category, retryable, docsLink) ==
    [message |-> message, category |-> category, retryable |-> retryable,
     docsLink |-> docsLink]

ParseError(error) ==
    LET m == ErrorMessage(error) IN
    IF IsCancelled(m)
    THEN ErrorInfo("You cancelled the passkey prompt.", "auth", TRUE, TRUE)
    ELSE IF IsUnsupported(m)
    THEN ErrorInfo("Your browser doesn't support WebAuthn passkeys.", "auth", FALSE, TRUE)
    ELSE IF IsSigningFailed(m)
    THEN ErrorInfo("Signing failed. Please ensure you're using HTTPS.", "auth", TRUE, FALSE)
    ELSE IF IsInsufficient(m)
    THEN ErrorInfo("Insufficient balance for this transaction.", "transaction", FALSE, FALSE)
    ELSE IF IsTooLarge(m)
    THEN ErrorInfo("Transaction exceeds size limit.", "transaction", TRUE, TRUE)
    ELSE IF IsTimeout(m)
    THEN ErrorInfo("Request timed out.", "network", TRUE, FALSE)
    ELSE IF IsNetwork(m)
    THEN ErrorInfo("Network connection error.", "network", TRUE, FALSE)
    ELSE IF IsRateLimit(m)
    THEN ErrorInfo("Too many requests. Please wait a moment.", "network", TRUE, FALSE)
    ELSE IF IsRpc(m)
    THEN ErrorInfo("RPC connection error.", "network", TRUE, FALSE)
    ELSE ErrorInfo(IF m # "" THEN m ELSE "An unexpected error occurred.",
                   "unknown", TRUE, FALSE)

\* the pieces the messages of the model are put together from: every
\* substring parseError looks for, other spellings of some, and other text
Fragments ==
    { "", "NotAllowedError", "cancelled", "canceled", "Cancelled",
      "PublicKeyCredential", "WebAuthn", "Signing failed", "signing failed",
      "insufficient", "Insufficient", "Transaction too large", "timeout", "Timeout",
      "fetch", "network", "Network", "Failed to fetch", "429", "rate limit",
      "RPC", "rpc", "boom" }
Messages == { a \o b : a \in Fragments, b \in Fragments }
           \cup { a \o " " \o b : a \in Fragments, b \in Fragments }
ErrorValues ==
    { [kind |-> "Error", message |-> m] : m \in Messages }
    \cup { [kind |-> "string", text |-> m] : m \in Messages }
    \cup { [kind |-> "null"], [kind |-> "undefined"] }

Caught(e) == [phase |-> "caught", error |-> e]
ParseErrorAtRest == perr = Caught([kind |-> "undefined"])

\* a catch block hands what it caught to parseError
parseError ==
    /\ perr.phase = "caught"
    /\ perr' = [phase |-> "parsed", error |-> perr.error, info |-> ParseError(perr.error)]

\* ================= features/wallet/hooks/useTransaction.ts: useTransaction
MaxCalls == 2           \* execute calls made while the hook is mounted

\* a string held in a `string | null` state
Str(s) == [kind |-> "string", val |-> s]

ParseTransactionError(error) ==
    LET m == ErrorMessage(error) IN
    IF IsCancelled(m)
    THEN "You cancelled the passkey prompt. Please try again and approve when prompted."
    ELSE IF IsSigningFailed(m)
    THEN "Signing failed. Please ensure you're using HTTPS and your device supports passkeys."
    ELSE IF IsInsufficient(m)
    THEN "Insufficient balance. For gasless transactions, ensure you have USDC in your wallet."
    ELSE IF IsTooLarge(m)
    THEN "Transaction exceeds size limit. Try breaking it into smaller transactions or contact support."
    ELSE IF IsTimeout(m)
    THEN "Request timed out. The network might be slow. Please try again."
    ELSE IF IsRateLimit(m)
    THEN "Too many requests. Please wait a moment and try again."
    ELSE IF m # "" THEN m
    ELSE "Transaction failed. Please check your connection and try again."

\* what signAndSendTransaction resolves with, and what it rejects with
TxSignatures == {"sigA", "sigB"}
TxErrors ==
    { [kind |-> "Error", message |-> m] :
          m \in {"", "NotAllowedError: denied", "Insufficient funds", "boom"} }
    \cup { [kind |-> "string", text |-> "rate limit"], [kind |-> "undefined"] }

\* one execute call: not made yet, awaiting signAndSendTransaction, or
\* returned; sends counts its calls of signAndSendTransaction
NotCalled == [phase |-> "none", sends |-> 0]
\* what happened last: the call, what it returned, and the hook's state
\* just before
NoEvent == [op |-> "none", call |-> 0]
Snapshot(t) == [loading |-> t.loading, signature |-> t.signature, error |-> t.error]

\* useState(false), useState(null), useState(null)
TxnAtRest ==
    txn = [isConnected |-> FALSE, smartWalletPubkey |-> Null,
           loading |-> FALSE, signature |-> Null, error |-> Null,
           calls |-> [c \in 1..MaxCalls |-> NotCalled], last |-> NoEvent]

PendingCalls(t) == { c \in DOMAIN t.calls : t.calls[c].phase = "pending" }
UnusedCalls(t) == { c \in DOMAIN t.calls : t.calls[c].phase = "none" }

\* useWallet(): the wallet connects or disconnects
txnWalletUpdate ==
    \E connected \in BOOLEAN :
        /\ connected # txn.isConnected
        /\ txn' = [txn EXCEPT !.isConnected = connected,
                              !.smartWalletPubkey = IF connected THEN Str("AddrA") ELSE Null,
                              !.last = NoEvent]

\* execute(instructions) up to the await, or to its early return
execute ==
    \E c \in UnusedCalls(txn), length \in 0..1 :
        /\ c = CHOOSE d \in UnusedCalls(txn) : \A e \in UnusedCalls(txn) : d <= e
        /\ IF ~txn.isConnected \/ txn.smartWalletPubkey = Null \/ length = 0
           THEN txn' = [txn EXCEPT
                    !.calls[c] = [phase |-> "returned", sends |-> 0, ret |-> Null],
                    !.last = [op |-> "refused", call |-> c, before |-> Snapshot(txn)]]
           ELSE txn' = [txn EXCEPT
                    !.loading = TRUE,
                    !.error = Null,
                    !.calls[c] = [phase |-> "pending", sends |-> 1],
                    !.last = [op |-> "started", call |-> c, before |-> Snapshot(txn)]]

\* signAndSendTransaction resolves: the rest of the try block, then finally
signResolves ==
    \E c \in PendingCalls(txn), sig \in TxSignatures :
        txn' = [txn EXCEPT
            !.signature = Str(sig),
            !.loading = FALSE,
            !.calls[c] = [phase |-> "returned", sends |-> @.sends, ret |-> Str(sig)],
            !.last = [op |-> "resolved", call |-> c, sig |-> sig,
                      before |-> Snapshot(txn)]]

\* signAndSendTransaction rejects: the catch block, then finally
signRejects ==
    \E c \in PendingCalls(txn), err \in TxErrors :
        txn' = [txn EXCEPT
            !.error = Str(ParseTransactionError(err)),
            !.loading = FALSE,
            !.calls[c] = [phase |-> "returned", sends |-> @.sends, ret |-> Null],
            !.last = [op |-> "rejected", call |-> c, before |-> Snapshot(txn)]]

\* ========== features/swap: useSwap.getQuote and the quote effect of SwapPage
MaxSwapTime == 2        \* the clock of the swap page stops here
quoteCacheMs == 2       \* 5000 in the source: how long a cached quote is served
MaxRequests == 2        \* quote requests in flight together

\* what the user can type into the amount field (handleAmountChange lets
\* digits with at most one point through)
FromAmounts == { <<>>, << "." >>, << "1" >>, << "2" >> }
Directions == {"SOL_TO_USDC", "USDC_TO_SOL"}

\* what the quote endpoint answers: not ok, or a body with outAmount and
\* priceImpactPct
NotOk == [ok |-> FALSE]
Body(outAmount, priceImpactPct) ==
    [ok |-> TRUE, outAmount |-> outAmount, priceImpactPct |-> priceImpactPct]
Responses ==
    { NotOk,
      Body(<<>>, << "1" >>),
      Body(<< "1", "0", "0", "0" >>, << "1" >>),
      Body(<< "3", "5", "0", "0" >>, <<>>) }

\* getSwapQuote: null unless the answer is ok and has an outAmount
GetSwapQuote(response) ==
    IF ~response.ok \/ response.outAmount = <<>> THEN Null
    ELSE [outAmount |-> response.outAmount,
          priceImpactPct |-> ParseFloat(IF response.priceImpactPct # <<>>
                                        THEN response.priceImpactPct ELSE << "0" >>)]

\* parseInt(outAmount) / Math.pow(10, decimals)
FormatOutputAmount(outAmount, outputToken) ==
    Num(DecimalOf(DigitPrefix(outAmount)), PowerOfTen(IF outputToken = "SOL" THEN 9 ELSE 6))

\* quote.toFixed(6), as its count of millionths
ToFixed(x) ==
    LET scale == x.den \div PowerOfTen(6) IN
    [kind |-> "fixed", millionths |-> (x.num + (scale \div 2)) \div scale]
\* the empty text of the output field
Blank == [kind |-> "blank"]

FromToken(direction) == IF direction = "SOL_TO_USDC" THEN "SOL" ELSE "USDC"
ToToken(direction) == IF direction = "SOL_TO_USDC" THEN "USDC" ELSE "SOL"

\* `${fromToken}-${toToken}-${amount}`
CacheKey(fromToken, toToken, amount) == << fromToken, toToken, amount >>

\* the effect's own test: `!fromAmount || parseFloat(fromAmount) <= 0`
NoQuoteWanted(fromAmount) ==
    \/ fromAmount = <<>>
    \/ (~ParseFloat(fromAmount).nan /\ ParseFloat(fromAmount).num <= 0)

\* getQuote's test: `!amount || amount <= 0`
NoAmount(amount) == amount.nan \/ amount.num <= 0

\* the test of the cache in getQuote
CacheFresh(entry, key, time) ==
    entry # Null /\ entry.key = key /\ time - entry.timestamp < quoteCacheMs

Input(p) == [fromAmount |-> p.fromAmount, swapDirection |-> p.swapDirection]
NoReturn == [op |-> "none"]

\* useState("") twice, useState("SOL_TO_USDC"), useState(false); useSwap:
\* useState(null), useRef(null). toAmountFor is the input the displayed
\* toAmount was computed for, returned is what getQuote returned last
SwapPageAtRest ==
    swapPage = [time |-> 0,
                fromAmount |-> <<>>, toAmount |-> Blank,
                swapDirection |-> "SOL_TO_USDC", quoteLoading |-> FALSE,
                timer |-> FALSE, requests |-> <<>>,
                priceImpact |-> Null, quoteCache |-> Null,
                toAmountFor |-> [fromAmount |-> <<>>, swapDirection |-> "SOL_TO_USDC"],
                returned |-> NoReturn]

\* Date.now() moves on
swapTick ==
    /\ swapPage.time < MaxSwapTime
    /\ swapPage' = [swapPage EXCEPT !.time = @ + 1, !.returned = NoReturn]

\* the quote effect after a render with new fromAmount or swapDirection:
\* the cleanup clears the timer, then the field is emptied or a timer set
QuoteEffect(p) ==
    IF NoQuoteWanted(p.fromAmount)
    THEN [p EXCEPT !.timer = FALSE, !.toAmount = Blank, !.toAmountFor = Input(p)]
    ELSE [p EXCEPT !.timer = TRUE]

\* handleAmountChange(value) with another value than the field holds
handleAmountChange ==
    \E value \in FromAmounts :
        /\ value # swapPage.fromAmount
        /\ swapPage' = QuoteEffect([swapPage EXCEPT !.fromAmount = value,
                                                    !.returned = NoReturn])

\* a click on one of the two direction buttons
directionClick ==
    \E direction \in Directions :
        LET clicked == [swapPage EXCEPT !.swapDirection = direction,
                                        !.fromAmount = <<>>,
                                        !.toAmount = Blank,
                                        !.returned = NoReturn]
            cleared == [clicked EXCEPT !.toAmountFor = Input(clicked)]
        IN  /\ clicked # [swapPage EXCEPT !.returned = NoReturn]
            /\ swapPage' = IF Input(clicked) # Input(swapPage)
                           THEN QuoteEffect(cleared) ELSE cleared

\* what the timer callback does with what getQuote returned
ShowQuote(p, input, quote) ==
    [p EXCEPT !.toAmount = IF quote # Null THEN ToFixed(quote) ELSE Blank,
              !.toAmountFor = input,
              !.quoteLoading = FALSE]

\* the debounce timer fires: setQuoteLoading(true) and getQuote up to its
\* await; without a request getQuote returns at once and the callback
\* finishes
timerFires ==
    /\ swapPage.timer
    /\ LET input == Input(swapPage)
           fromToken == FromToken(input.swapDirection)
           toToken == ToToken(input.swapDirection)
           amount == ParseFloat(input.fromAmount)
           key == CacheKey(fromToken, toToken, amount)
           fired == [swapPage EXCEPT !.timer = FALSE, !.quoteLoading = TRUE]
       IN  IF NoAmount(amount)
           THEN swapPage' = ShowQuote([fired EXCEPT
                                !.priceImpact = Null,
                                !.returned = [op |-> "getQuote", from |-> "none",
                                              key |-> key, ret |-> Null]],
                                input, Null)
           ELSE IF CacheFresh(swapPage.quoteCache, key, swapPage.time)
           THEN swapPage' = ShowQuote([fired EXCEPT
                                !.returned = [op |-> "getQuote", from |-> "cache",
                                              key |-> key,
                                              ret |-> swapPage.quoteCache.quote,
                                              response |-> swapPage.quoteCache.response]],
                                input, swapPage.quoteCache.quote)
           ELSE /\ Len(swapPage.requests) < MaxRequests
                /\ swapPage' = [fired EXCEPT
                       !.requests = Append(@, [input |-> input, key |-> key]),
                       !.returned = NoReturn]

Without(s, i) == SubSeq(s, 1, i - 1) \o SubSeq(s, i + 1, Len(s))

\* a request is answered: the rest of getQuote and of the timer callback.
\* The cache entry keeps the answer it was made from
quoteSettles ==
    \E i \in DOMAIN swapPage.requests, response \in Responses :
        LET request == swapPage.requests[i]
            quote == GetSwapQuote(response)
            outputAmount == FormatOutputAmount(quote.outAmount,
                                               ToToken(request.input.swapDirection))
            settled == [swapPage EXCEPT !.requests = Without(@, i)]
        IN  IF quote = Null
            THEN swapPage' = ShowQuote([settled EXCEPT
                                 !.priceImpact = Null,
                                 !.returned = [op |-> "getQuote", from |-> "fetch",
                                               key |-> request.key, ret |-> Null]],
                                 request.input, Null)
            ELSE swapPage' = ShowQuote([settled EXCEPT
                                 !.priceImpact = quote.priceImpactPct,
                                 !.quoteCache = [key |-> request.key,
                                                 quote |-> outputAmount,
                                                 timestamp |-> swapPage.time,
                                                 response |-> response],
                                 !.returned = [op |-> "getQuote", from |-> "fetch",
                                               key |-> request.key,
                                               ret |-> outputAmount,
                                               response |-> response]],
                                 request.input, outputAmount)

\* =========================================================== specifications
Init ==
    /\ SessionInit
    /\ EncryptorAtRest
    /\ RetryAtRest
    /\ HookAtRest
    /\ TransferAtRest
    /\ OnboardingAtRest
    /\ BalanceAtRest
    /\ ParseErrorAtRest
    /\ TxnAtRest
    /\ SwapPageAtRest

Next ==
    \/ Tick /\ UNCHANGED notSession
    \/ ExternalWrite /\ UNCHANGED notSession
    \/ createSession /\ UNCHANGED notSession
    \/ getSession /\ UNCHANGED notSession
    \/ clearSession /\ UNCHANGED notSession
    \/ updateLastActivity /\ UNCHANGED notSession
    \/ extendSession /\ UNCHANGED notSession
    \/ hasValidSession /\ UNCHANGED notSession
    \/ getSessionTimeRemaining /\ UNCHANGED notSession
    \/ isSessionExpiringSoon /\ UNCHANGED notSession
    \/ saveUserPreferences /\ UNCHANGED notSession
    \/ clearAllSessionData /\ UNCHANGED notSession

Spec == Init /\ [][Next]_vars

\* the hook's callbacks, timers and listeners over the same storage
HookNext ==
    \/ Tick /\ UNCHANGED notSession
    \/ ExternalWrite /\ UNCHANGED notSession
    \/ createNewSession /\ UNCHANGED notSession
    \/ endSession /\ UNCHANGED notSession
    \/ extendCurrentSession /\ UNCHANGED notSession
    \/ updatePreferences /\ UNCHANGED notSession
    \/ refresh /\ UNCHANGED notSession
    \/ handleActivity /\ UNCHANGED notSession
    \/ activityInterval /\ UNCHANGED notSession
    \/ checkExpiry /\ UNCHANGED notSession

HookSpec == Init /\ [][HookNext]_vars

\* the local encryptor: payloads are made, carried to other devices,
\* edited or replaced, and decrypted
EncryptorInit ==
    /\ SessionInit
    /\ navigator \in Devices
    /\ held = <<>>
    /\ origin = NoOrigin
    /\ res = Idle
    /\ RetryAtRest
    /\ HookAtRest
    /\ TransferAtRest
    /\ OnboardingAtRest
    /\ BalanceAtRest
    /\ ParseErrorAtRest
    /\ TxnAtRest
    /\ SwapPageAtRest

EncryptorNext ==
    \/ changeDevice /\ UNCHANGED notEncryptor
    \/ encryptLocal /\ UNCHANGED notEncryptor
    \/ tamperCiphertext /\ UNCHANGED notEncryptor
    \/ tamperCipherByte /\ UNCHANGED notEncryptor
    \/ appendSegment /\ UNCHANGED notEncryptor
    \/ foreignPayload /\ UNCHANGED notEncryptor
    \/ decryptLocal /\ UNCHANGED notEncryptor

EncryptorSpec == EncryptorInit /\ [][EncryptorNext]_encryptorVars

\* one call of withRetry, from its start to the settling of its promise
RetryInit == Init

RetryNext ==
    \/ withRetry /\ UNCHANGED notRetry
    \/ fnResolves /\ UNCHANGED notRetry
    \/ fnRejects /\ UNCHANGED notRetry
    \/ retryTimer /\ UNCHANGED notRetry

RetrySpec == RetryInit /\ [][RetryNext]_retry

\* the same call when every call of fn settles and every timer fires
RetryLiveSpec ==
    /\ RetrySpec
    /\ WF_retry(fnResolves \/ fnRejects)
    /\ WF_retry(retryTimer)

\* the mounted hook: its effects, timers and listeners, the wallet, and the
\* components that call it
MountedNext ==
    \/ ~EffectsDue /\ Tick /\ UNCHANGED notSession
    \/ ~EffectsDue /\ ExternalWrite /\ UNCHANGED notSession
    \/ ~EffectsDue /\ mount /\ UNCHANGED notHook
    \/ ~EffectsDue /\ unmount /\ UNCHANGED notHook
    \/ ~EffectsDue /\ walletChange /\ UNCHANGED notHook
    \/ runEffects /\ UNCHANGED notHook
    \/ ~EffectsDue /\ restoreTimeout /\ UNCHANGED notHook
    \/ ~EffectsDue /\ onEnd /\ UNCHANGED notHook
    \/ ~EffectsDue /\ onActivity /\ UNCHANGED notHook
    \/ ~EffectsDue /\ onActivityInterval /\ UNCHANGED notHook
    \/ ~EffectsDue /\ onExpiryInterval /\ UNCHANGED notHook

MountedSpec == Init /\ [][MountedNext]_<<vars, wallet, fiber>>

\* the transfer hooks: the wallet and the balances change, transfers are
\* called and settle
TransferNext ==
    \/ walletUpdate /\ UNCHANGED notTransfer
    \/ balanceUpdate /\ UNCHANGED notTransfer
    \/ transfer /\ UNCHANGED notTransfer
    \/ usdcTransfer /\ UNCHANGED notTransfer
    \/ instructionSettles /\ UNCHANGED notTransfer
    \/ executeSettles /\ UNCHANGED notTransfer

TransferSpec == Init /\ [][TransferNext]_xfer

\* the getting-started wizard: mounts, clicks, and resets of the flag
OnboardingNext ==
    \/ wizardMount /\ UNCHANGED notOnboarding
    \/ wizardUnmount /\ UNCHANGED notOnboarding
    \/ loadEffect /\ UNCHANGED notOnboarding
    \/ render /\ UNCHANGED notOnboarding
    \/ handleNext /\ UNCHANGED notOnboarding
    \/ handlePrevious /\ UNCHANGED notOnboarding
    \/ handleSkip /\ UNCHANGED notOnboarding
    \/ otherMount /\ UNCHANGED notOnboarding
    \/ otherLoadEffect /\ UNCHANGED notOnboarding
    \/ resetOnboarding /\ UNCHANGED notOnboarding

OnboardingSpec == Init /\ [][OnboardingNext]_onboarding

\* the balance hooks: the wallet connects and disconnects, requests are
\* started and settle in any order
BalanceInit ==
    /\ SessionInit
    /\ EncryptorAtRest
    /\ RetryAtRest
    /\ HookAtRest
    /\ TransferAtRest
    /\ OnboardingAtRest
    /\ ParseErrorAtRest
    /\ TxnAtRest
    /\ SwapPageAtRest
    /\ bal \in { BalanceHook(h) : h \in {"useSolBalance", "useUsdcBalance"} }

BalanceNext ==
    \/ connect /\ UNCHANGED notBalance
    \/ disconnect /\ UNCHANGED notBalance
    \/ accountChange /\ UNCHANGED notBalance
    \/ refreshBalance /\ UNCHANGED notBalance
    \/ fetchResolves /\ UNCHANGED notBalance
    \/ fetchRejects /\ UNCHANGED notBalance

BalanceSpec == BalanceInit /\ [][BalanceNext]_bal

\* parseError on every value of the model
ParseErrorInit ==
    /\ SessionInit
    /\ EncryptorAtRest
    /\ RetryAtRest
    /\ HookAtRest
    /\ TransferAtRest
    /\ OnboardingAtRest
    /\ BalanceAtRest
    /\ TxnAtRest
    /\ SwapPageAtRest
    /\ perr \in { Caught(e) : e \in ErrorValues }

ParseErrorNext == parseError /\ UNCHANGED notParseError

ParseErrorSpec == ParseErrorInit /\ [][ParseErrorNext]_perr

\* useTransaction: execute calls may overlap, and settle in any order
TxnNext ==
    \/ txnWalletUpdate /\ UNCHANGED notTxn
    \/ execute /\ UNCHANGED notTxn
    \/ signResolves /\ UNCHANGED notTxn
    \/ signRejects /\ UNCHANGED notTxn

TxnSpec == Init /\ [][TxnNext]_txn

\* the swap page: the user edits the inputs while requests are in flight,
\* and answers arrive in any order
SwapNext ==
    \/ swapTick /\ UNCHANGED notSwapPage
    \/ handleAmountChange /\ UNCHANGED notSwapPage
    \/ directionClick /\ UNCHANGED notSwapPage
    \/ timerFires /\ UNCHANGED notSwapPage
    \/ quoteSettles /\ UNCHANGED notSwapPage

SwapSpec == Init /\ [][SwapNext]_swapPage

\* ================================================================ claims
\* the session item the last call started from, and the one it left
PreItem == out.pre[SESSION_KEY]
PostItem == localStorage[SESSION_KEY]
IsRecord(item) == item.kind = "json"
\* a record that getSession's test `now > expiresAt` expires
Expired(item) == IsRecord(item) /\ now > Parse(item).expiresAt
\* a record that getSession returns
Live(item) == IsRecord(item) /\ now <= Parse(item).expiresAt
\* nothing stored under the session key
Absent(item) == item = NoItem \/ item = EmptyString

\* C1: getSession never returns a record whose expiresAt is earlier than the
\* current time; when the stored record is past its expiresAt, getSession
\* removes it from storage and returns null, and hasValidSession is false.
C1_LazyExpiryOnRead ==
    /\ out.op = "getSession" =>
         /\ (~out.threw /\ out.ret # Null) =>
                out.ret = Parse(PreItem) /\ out.ret.expiresAt >= now
         /\ Expired(PreItem) =>
                ~out.threw /\ out.ret = Null /\ PostItem = NoItem
    /\ (out.op = "hasValidSession" /\ Expired(PreItem)) =>
         ~out.threw /\ out.ret = FALSE /\ PostItem = NoItem
    /\ Expired(PostItem) =>
         /\ GetSession(localStorage, now).ret = Null
         /\ GetSession(localStorage, now).store[SESSION_KEY] = NoItem

\* a session created with a positive expiryMs and never extended is read
\* after the clock has passed its expiresAt
C1_Witness ==
    /\ out.op = "getSession"
    /\ Expired(PreItem)
    /\ Parse(PreItem).expiresAt > Parse(PreItem).createdAt
    /\ out.ret = Null
    /\ PostItem = NoItem

CreatedRecord ==
    [walletAddress |-> out.arg.walletAddress,
     createdAt |-> now,
     expiresAt |-> now + out.arg.expiryMs,
     lastActivity |-> now]

WellFormed(item) ==
    IsRecord(item) =>
        /\ Parse(item).createdAt <= Parse(item).lastActivity
        /\ Parse(item).expiresAt > Parse(item).createdAt

C5_UpdateLastActivityFrame ==
    out.op = "updateLastActivity" =>
        /\ localStorage[PREFS_KEY] = out.pre[PREFS_KEY]
        /\ Live(PreItem) =>
              /\ ~out.threw
              /\ PostItem = Stringify([Parse(PreItem) EXCEPT !.lastActivity = now])
              /\ Parse(PostItem).walletAddress = Parse(PreItem).walletAddress
              /\ Parse(PostItem).createdAt = Parse(PreItem).createdAt
              /\ Parse(PostItem).expiresAt = Parse(PreItem).expiresAt
        /\ ~Live(PreItem) =>
              /\ ~IsRecord(PostItem)
              /\ PostItem = PreItem \/ PostItem = NoItem

\* updateLastActivity acted on a live record at a time later than its
\* creation, and on an expired one
C5_Witness ==
    /\ out.op = "updateLastActivity"
    /\ Live(PreItem)
    /\ Parse(PreItem).lastActivity < now
    /\ Parse(PostItem).lastActivity = now

\* C6 (as claimed): each recorded user activity (a click, keydown, scroll or
\* mousemove handled by handleActivity, or the periodic activity interval) on
\* a session that has not yet expired pushes the session's expiresAt later.
C6_ActivityExtendsExpiry ==
    (/\ out.op \in {"handleActivity", "activityInterval"}
     /\ IsRecord(PreItem)
     /\ now < Parse(PreItem).expiresAt)
    => /\ IsRecord(PostItem)
       /\ Parse(PostItem).expiresAt > Parse(PreItem).expiresAt

\* C7: extendSession(additionalMs) on a record that getSession returns adds
\* exactly additionalMs to expiresAt, keeps walletAddress and createdAt,
\* stores and returns the updated record, so that a positive additionalMs
\* leaves more time remaining than before; with nothing stored it returns
\* null and leaves storage as it was; on a record past its expiresAt it
\* returns null and the record is removed.
C7_ExtendSession ==
    out.op = "extendSession" =>
        /\ localStorage[PREFS_KEY] = out.pre[PREFS_KEY]
        /\ Live(PreItem) =>
              /\ ~out.threw
              /\ out.ret # Null
              /\ out.ret.expiresAt = Parse(PreItem).expiresAt + out.arg.additionalMs
              /\ out.ret.walletAddress = Parse(PreItem).walletAddress
              /\ out.ret.createdAt = Parse(PreItem).createdAt
              /\ PostItem = Stringify(out.ret)
              /\ out.arg.additionalMs > 0 =>
                    GetSessionTimeRemaining(localStorage, now).ret
                        > Parse(PreItem).expiresAt - now
        /\ Absent(PreItem) =>
              ~out.threw /\ out.ret = Null /\ localStorage = out.pre
        /\ Expired(PreItem) =>
              ~out.threw /\ out.ret = Null /\ PostItem = NoItem

\* a session just created with a positive expiryMs is extended by a positive
\* amount and has more time remaining than its expiryMs
C7_Witness ==
    /\ out.op = "extendSession"
    /\ Live(PreItem)
    /\ Parse(PreItem).createdAt = now
    /\ Parse(PreItem).expiresAt > now
    /\ out.arg.additionalMs > 0
    /\ GetSessionTimeRemaining(localStorage, now).ret > Parse(PreItem).expiresAt - now

\* C8: after clearSession() or clearAllSessionData(true) no session record is
\* stored, getSession returns null and the stored preferences are as before;
\* clearAllSessionData(false) removes the preferences too; no other
\* operation of the session store except saveUserPreferences changes the
\* stored preferences (saveUserPreferences is updatePreferences in the hook,
\* clearAllSessionData is endSession).
C8_PreferencesSurvive ==
    /\ (\/ out.op = "clearSession"
        \/ (out.op = "clearAllSessionData" /\ out.arg.keepPreferences)) =>
          /\ PostItem = NoItem
          /\ GetSession(localStorage, now).ret = Null
          /\ ~GetSession(localStorage, now).threw
          /\ localStorage[PREFS_KEY] = out.pre[PREFS_KEY]
    /\ (out.op = "clearAllSessionData" /\ ~out.arg.keepPreferences) =>
          /\ PostItem = NoItem
          /\ localStorage[PREFS_KEY] = NoItem
    /\ out.op \notin {"init", "saveUserPreferences", "clearAllSessionData",
                      "updatePreferences", "endSession"} =>
          localStorage[PREFS_KEY] = out.pre[PREFS_KEY]
    /\ out.op = "endSession" =>
          /\ PostItem = NoItem
          /\ localStorage[PREFS_KEY] =
                IF out.arg.keepPreferences THEN out.pre[PREFS_KEY] ELSE NoItem

\* a session is ended with keepPreferences = true while saved preferences
\* that differ from the defaults are stored
C8_Witness ==
    /\ out.op = "clearAllSessionData"
    /\ out.arg.keepPreferences
    /\ IsRecord(PreItem)
    /\ out.pre[PREFS_KEY] # NoItem
    /\ GetUserPreferences(localStorage) # DefaultPreferences
    /\ PostItem = NoItem

C10_CorruptedIsNoSession ==
    (/\ out.op \in {"getSession", "hasValidSession", "getSessionTimeRemaining",
                    "isSessionExpiringSoon", "updateLastActivity", "extendSession"}
     /\ ~IsRecord(PreItem))
    => /\ ~out.threw
       /\ out.op \in {"getSession", "extendSession"} => out.ret = Null
       /\ out.op \in {"hasValidSession", "isSessionExpiringSoon"} => out.ret = FALSE
       /\ out.op = "getSessionTimeRemaining" => out.ret = 0
       /\ ~IsRecord(PostItem)

\* ------------------------------------------------------- local encryptor
\* the last call decrypted a payload exactly as encryptLocal made it
DecryptedIntact == res.op = "decryptLocal" /\ origin.made /\ ~origin.edited
\* ... in a browser with the fingerprint the payload was made under
DecryptedAtHome == DecryptedIntact /\ res.fingerprint = origin.fingerprint
\* a string without unpaired surrogates
IsWellFormed(s) == CodeUnits(CodePoints(s)) = s
StartsWithBOM(s) == s # <<>> /\ IsBOM(s[1])

C12_CrossDevice ==
    (DecryptedIntact /\ res.fingerprint # origin.fingerprint)
        => res.ret = ResolvedNull

C12_Witness ==
    /\ DecryptedIntact /\ res.fingerprint # origin.fingerprint
    /\ origin.data # <<>>
    /\ res.ret = ResolvedNull

\* the last call decrypted an edited payload under the fingerprint it was
\* made under
DecryptedEdited ==
    /\ res.op = "decryptLocal" /\ origin.made /\ origin.edited
    /\ res.fingerprint = origin.fingerprint
\* the edit left the ciphertext what it was
SameCipher == CipherBytes(res.payload) = CipherBytes(origin.payload)

\* C13 (as claimed): after any change of one byte of the ciphertext segment
\* of a payload that encryptLocal made, decryptLocal on the same device
\* resolves to null.
C13_TamperDetected_Original == DecryptedEdited => res.ret = ResolvedNull

\* C13: after a change of the ciphertext segment that changes the bytes the
\* segment decodes to, or makes it undecodable, decryptLocal on the same
\* device resolves to null; after a change that leaves the decoded bytes the
\* same it resolves as it does for the unchanged payload.
C13_TamperDetected ==
    DecryptedEdited =>
        IF SameCipher THEN res.ret = DecryptLocal(origin.payload, navigator)
        ELSE res.ret = ResolvedNull

\* one bit of one ciphertext byte was flipped and the result is null
C13_Witness ==
    /\ DecryptedEdited
    /\ ~SameCipher /\ ~CipherBytes(res.payload).threw
    /\ Len(CipherBytes(res.payload).bytes) = Len(CipherBytes(origin.payload).bytes)
    /\ res.ret = ResolvedNull

\* why the try block of the last decryptLocal call ended
Failure ==
    LET s == DecryptSteps(res.payload, navigator) IN
    IF ~s.decoded THEN "decoding" ELSE IF s.plain.threw THEN "decryption" ELSE "none"

\* C14: for every input string the promise of decryptLocal does not reject;
\* it resolves to a string when the payload decodes and decrypts and to
\* null otherwise, the same null whatever made the call fail.
C14_FailsClosed ==
    res.op = "decryptLocal" =>
        /\ ~res.ret.rejected
        /\ (Failure # "none") = res.ret.null
        /\ res.ret.null => res.ret = ResolvedNull

\* a payload whose base64 text atob rejects was answered with null
C14_Witness ==
    /\ res.op = "decryptLocal"
    /\ Failure = "decoding"
    /\ res.ret = ResolvedNull

\* -------------------------------------------------------------- withRetry
\* C15 (as claimed): the waits of one withRetry call grow geometrically:
\* the first is delayMs and each later one is the one before it times one
\* constant factor greater than 1.
C15_ExponentialBackoff ==
    (retry.phase # "idle" /\ retry.waits # <<>>) =>
        /\ retry.waits[1] = retry.delayMs
        /\ Len(retry.waits) >= 2 => retry.waits[2] > retry.waits[1]
        /\ \A k \in 2..(Len(retry.waits) - 1) :
              retry.waits[k + 1] * retry.waits[1] = retry.waits[k] * retry.waits[2]

\* C16: every callback of the hook that rewrites the session record starts
\* from the record the callback before it left: an activity update (listener
\* or interval) keeps the walletAddress, createdAt and expiresAt it finds,
\* so an earlier extension is not undone, and an extension that leaves a
\* record keeps the walletAddress and createdAt it finds and no older
\* lastActivity.
C16_NoLostUpdate ==
    /\ (out.op \in {"handleActivity", "activityInterval"} /\ Live(PreItem)) =>
          /\ ~out.threw
          /\ IsRecord(PostItem)
          /\ Parse(PostItem).walletAddress = Parse(PreItem).walletAddress
          /\ Parse(PostItem).createdAt = Parse(PreItem).createdAt
          /\ Parse(PostItem).expiresAt = Parse(PreItem).expiresAt
          /\ Parse(PostItem).lastActivity = now
    /\ (out.op = "extendCurrentSession" /\ Live(PreItem) /\ IsRecord(PostItem)) =>
          /\ ~out.threw
          /\ Parse(PostItem).walletAddress = Parse(PreItem).walletAddress
          /\ Parse(PostItem).createdAt = Parse(PreItem).createdAt
          /\ Parse(PostItem).lastActivity >= Parse(PreItem).lastActivity

\* an activity update ran on a record that had been extended, and at a time
\* later than the activity recorded before
C16_Witness ==
    /\ out.op \in {"handleActivity", "activityInterval"}
    /\ Live(PreItem)
    /\ Parse(PreItem).expiresAt > Parse(PreItem).createdAt + sessionExpiryMs
    /\ now > Parse(PreItem).lastActivity
    /\ Parse(PostItem).expiresAt = Parse(PreItem).expiresAt
    /\ Parse(PostItem).lastActivity = now

\* ------------------------------------------------------ the mounted hook
\* C17 (as claimed): at any time the hook instance has at most one activity
\* interval, one set of activity listeners and one expiry interval, and once
\* the component is unmounted no timer and no listener of the hook is left.
C17_TimersCleared ==
    /\ fiber.activityIntervals <= 1
    /\ fiber.listeners <= 1
    /\ fiber.expiryIntervals <= 1
    /\ ~fiber.mounted =>
          /\ fiber.activityIntervals = 0
          /\ fiber.listeners = 0
          /\ fiber.expiryIntervals = 0
          /\ ~fiber.restoreTimer

\* the last step ran the body of the auto-sync effect for a connected wallet
SyncRan == out.op \in {"mount", "runEffects"} /\ out.ret.ran
\* the session item the auto-sync effect left
SyncItem == out.ret.store[SESSION_KEY]
\* storage held a session that getSession returns and that is for address w
ValidFor(item, w) == Live(item) /\ Parse(item).walletAddress = w

\* C18 (as claimed): when the auto-sync effect runs with a connected wallet
\* of address W, it creates a new session iff storage holds no valid
\* session or one for another address; a valid session for W keeps its
\* createdAt and expiresAt and gets lastActivity = now; afterwards the
\* stored session's walletAddress is W.
C18_SessionOnConnect ==
    SyncRan =>
        /\ out.ret.created = ~ValidFor(PreItem, out.arg.wallet)
        /\ out.ret.created =>
              SyncItem = Stringify([walletAddress |-> out.arg.wallet, createdAt |-> now,
                                    expiresAt |-> now + sessionExpiryMs,
                                    lastActivity |-> now])
        /\ ~out.ret.created =>
              /\ IsRecord(PreItem)
              /\ SyncItem = Stringify([Parse(PreItem) EXCEPT !.lastActivity = now])
        /\ IsRecord(SyncItem) /\ Parse(SyncItem).walletAddress = out.arg.wallet

\* ------------------------------------------------------ the transfer hooks
\* what the last transfer call was made with
CallConnected == xfer.call.seen.isConnected /\ xfer.call.seen.pubkey # NoAddress
CallRecipientValid == xfer.call.recipient \in Addresses
CallAmountPositive ==
    ~ParseFloat(xfer.call.amount).nan /\ ParseFloat(xfer.call.amount).num > 0
CallAffordable ==
    \/ xfer.call.seen.balance = Null
    \/ ParseFloat(xfer.call.amount).num
          <= xfer.call.seen.balance.val * ParseFloat(xfer.call.amount).den
\* the call returned null without calling execute, with this toast
CallRefused(why) ==
    /\ xfer.call.phase = "returned"
    /\ xfer.call.toast = why
    /\ xfer.call.ret = Null
    /\ ~xfer.call.executed
    /\ ~xfer.call.refreshed

\* C19: a transfer of either hook calls execute only with a connected
\* wallet, a valid recipient, an amount that parses to a number greater
\* than 0 and that is not above the balance the hook knows; the checks are
\* made in that order and the first that fails returns null without calling
\* execute; the balance refresh is called only after a non-null signature.
C19_TransferGating ==
    xfer.call.phase # "none" =>
        /\ xfer.call.executed =>
              CallConnected /\ CallRecipientValid /\ CallAmountPositive /\ CallAffordable
        /\ ~CallConnected => CallRefused(NotConnectedToast)
        /\ (CallConnected /\ ~CallRecipientValid) => CallRefused(InvalidRecipientToast)
        /\ (CallConnected /\ CallRecipientValid /\ ~CallAmountPositive) =>
              CallRefused(InvalidAmountToast)
        /\ (CallConnected /\ CallRecipientValid /\ CallAmountPositive
              /\ ~CallAffordable) => CallRefused(InsufficientToast)
        /\ xfer.call.refreshed =>
              /\ xfer.call.executed
              /\ xfer.call.phase = "returned"
              /\ xfer.call.ret = Signature

\* a USDC transfer of the whole known balance was executed, returned a
\* signature and refreshed the balance
C19_Witness ==
    /\ xfer.call.phase = "returned"
    /\ xfer.call.hook = "useUsdcTransfer"
    /\ xfer.call.refreshed
    /\ xfer.call.seen.balance = Known(2)
    /\ xfer.call.amount = <<" ", "2">>

\* ------------------------------------------------------------ the wizard
\* C20: once the user has finished the last step or skipped, the flag is
\* stored and the wizard is not shown, on this mount or any later one, until
\* resetOnboarding() is called; currentStep stays within 0..steps.length-1.
C20_WizardOnce ==
    /\ onboarding.completedBy # "none" =>
          /\ onboarding.item = TrueItem
          /\ ~Shown(onboarding)
    /\ onboarding.currentStep \in 0..(StepsLength - 1)
    /\ onboarding.closure \in 0..(StepsLength - 1)

\* the wizard was finished on its last step, and the page was mounted again
\* and has run its effect
C20_Witness ==
    /\ onboarding.completedBy = "next"
    /\ onboarding.laterMount
    /\ onboarding.mounted
    /\ ~onboarding.isLoading

\* ------------------------------------------------------- withRetry, calls
\* the call has returned or thrown
RetrySettled == retry.phase \in {"resolved", "rejected"}
\* a call that resolved returns the value of its last call of fn, every call
\* before it having failed; a call that rejected made `bound` calls and
\* throws the error of the last
RetryOutcome(bound) ==
    /\ retry.calls <= bound
    /\ retry.phase = "resolved" =>
          /\ retry.value = retry.calls
          /\ retry.attempt = retry.calls - 1
    /\ retry.phase = "rejected" =>
          /\ retry.calls = bound
          /\ retry.error = retry.calls

\* C22 (as claimed): fn is called at most retries + 1 times for every
\* retries, the first success is returned, after retries + 1 failures the
\* last error is thrown, and the call settles.
C22_BoundedRetries_Original ==
    /\ [](retry.phase # "idle" => RetryOutcome(retry.retries + 1))
    /\ (retry.phase = "calling") ~> RetrySettled

\* C22: for retries >= 0 fn is called at most retries + 1 times, for a
\* negative retries exactly once; the first success is returned and no call
\* follows it, after the last allowed failure the error of that call is
\* thrown, and when every call of fn settles the call of withRetry settles.
C22_BoundedRetries ==
    /\ [](retry.phase # "idle" =>
            RetryOutcome(IF retry.retries >= 0 THEN retry.retries + 1 ELSE 1))
    /\ (retry.phase = "calling") ~> RetrySettled

\* a call with retries = 2 threw after three failures
C22_Witness ==
    /\ retry.phase = "rejected"
    /\ retry.retries = 2
    /\ retry.calls = 3
    /\ retry.error = 3

\* ------------------------------------------- local encryptor, wire format
\* C29 (as claimed): decryptLocal resolves to null for every payload that
\* does not have exactly three segments between its "." separators.
C29_ThreeSegmentsOnly ==
    (res.op = "decryptLocal" /\ Len(Split(res.payload)) # 3) => res.ret = ResolvedNull

\* ------------------------------------------- the mounted hook, expiry, end
\* C25 (as claimed): when a periodic expiry check of the mounted hook runs
\* after the stored session's expiresAt has passed, it leaves session null,
\* timeRemaining 0, isValid false and no session record in storage.
C25_ExpiryReachesHook ==
    (out.op = "checkExpiry" /\ ~out.threw /\ fiber.mounted /\ Expired(PreItem)) =>
        /\ session = Null
        /\ timeRemaining = 0
        /\ ~IsValid
        /\ ~IsRecord(PostItem)

\* C26 (as claimed): the step that follows endSession(), unless it is a
\* change of the wallet or of the storage from outside the hook, leaves
\* session null, timeRemaining 0, isExpiringSoon false and no session record
\* in storage.
C26_EndSessionEnds ==
    [][(/\ out.op = "endSession"
        /\ wallet' = wallet
        /\ out'.op \notin {"externalWrite", "mount", "unmount"})
       => (/\ session' = Null
           /\ timeRemaining' = 0
           /\ isExpiringSoon' = FALSE
           /\ ~IsRecord(localStorage'[SESSION_KEY]))]_<<vars, wallet, fiber>>

\* ------------------------------------------------------ the balance hooks
\* C21 (as claimed): while the wallet is disconnected the balance is null;
\* while it is connected a balance that is not null is the result of a
\* request started after the last connect; and the auto-fetch effect starts
\* at most one request per connected period.
C21_NoStaleBalance ==
    /\ ~bal.isConnected => bal.balance = Null
    /\ (bal.isConnected /\ bal.balance # Null) => bal.shownFrom = bal.period
    /\ bal.autoFetches <= 1

\* -------------------------------------------------------------- parseError
\* the rules as the claim lists them: what is looked for, and the result
Rules ==
    << [subs |-> {"NotAllowedError", "cancelled", "canceled"},
        message |-> "You cancelled the passkey prompt.",
        category |-> "auth", retryable |-> TRUE],
       [subs |-> {"PublicKeyCredential", "WebAuthn"},
        message |-> "Your browser doesn't support WebAuthn passkeys.",
        category |-> "auth", retryable |-> FALSE],
       [subs |-> {"Signing failed"},
        message |-> "Signing failed. Please ensure you're using HTTPS.",
        category |-> "auth", retryable |-> TRUE],
       [subs |-> {"insufficient", "Insufficient"},
        message |-> "Insufficient balance for this transaction.",
        category |-> "transaction", retryable |-> FALSE],
       [subs |-> {"Transaction too large"},
        message |-> "Transaction exceeds size limit.",
        category |-> "transaction", retryable |-> TRUE],
       [subs |-> {"timeout", "Timeout"},
        message |-> "Request timed out.",
        category |-> "network", retryable |-> TRUE],
       [subs |-> {"fetch", "network", "Failed to fetch"},
        message |-> "Network connection error.",
        category |-> "network", retryable |-> TRUE],
       [subs |-> {"429", "rate limit"},
        message |-> "Too many requests. Please wait a moment.",
        category |-> "network", retryable |-> TRUE],
       [subs |-> {"RPC", "rpc"},
        message |-> "RPC connection error.",
        category |-> "network", retryable |-> TRUE] >>
\* the text of the value that was parsed
ParsedText == ErrorMessage(perr.error)
RuleMatches(i) == \E sub \in Rules[i].subs : Includes(ParsedText, sub)
IsFirstMatch(i) == RuleMatches(i) /\ \A j \in 1..(i - 1) : ~RuleMatches(j)

\* C30: parseError returns, for every value, one ErrorInfo with a message
\* that is not empty: that of the first rule of the list that matches;
\* category is "unknown" exactly when no listed substring occurs in the
\* text, and retryable is false exactly for the WebAuthn and the
\* insufficient-balance results.
C30_FirstMatch ==
    perr.phase = "parsed" =>
        /\ perr.info.message # ""
        /\ \A i \in DOMAIN Rules :
              IsFirstMatch(i) =>
                  /\ perr.info.message = Rules[i].message
                  /\ perr.info.category = Rules[i].category
                  /\ perr.info.retryable = Rules[i].retryable
        /\ (perr.info.category = "unknown") <=> (\A i \in DOMAIN Rules : ~RuleMatches(i))
        /\ (\A i \in DOMAIN Rules : ~RuleMatches(i)) =>
              perr.info.message \in {ParsedText, "An unexpected error occurred."}
        /\ ~perr.info.retryable <=> (IsFirstMatch(2) \/ IsFirstMatch(4))

\* a text with substrings of two rules got the result of the earlier one
C30_Witness ==
    /\ perr.phase = "parsed"
    /\ ParsedText = "Timeout Insufficient"
    /\ perr.info.category = "transaction"
    /\ ~perr.info.retryable

\* ---------------------------------------------------------- useTransaction
\* C24: loading is true exactly while the signAndSendTransaction of at
\* least one execute call is pending, also when two calls overlap.
C24_LoadingWhilePending == txn.loading <=> PendingCalls(txn) # {}

\* C23: an execute call that finds no wallet or no instructions returns
\* null, sends nothing and leaves loading, error and signature as they
\* were; any other call sends once; when it resolves the call returns the
\* signature, `signature` holds it and `error` is null; when it rejects
\* the call returns null, `error` is a message that is not empty and
\* `signature` is as it was; either way loading is false afterwards.
C23_ExecuteOutcomes ==
    LET l == txn.last IN
    /\ l.op = "refused" =>
          /\ txn.calls[l.call].ret = Null
          /\ txn.calls[l.call].sends = 0
          /\ Snapshot(txn) = l.before
    /\ l.op = "resolved" =>
          /\ txn.calls[l.call].sends = 1
          /\ txn.calls[l.call].ret = Str(l.sig)
          /\ txn.signature = Str(l.sig)
          /\ txn.error = Null
          /\ ~txn.loading
    /\ l.op = "rejected" =>
          /\ txn.calls[l.call].sends = 1
          /\ txn.calls[l.call].ret = Null
          /\ txn.error # Null
          /\ txn.error.val # ""
          /\ txn.signature = l.before.signature
          /\ ~txn.loading

\* the same, for a call during which no other call was pending
C23_AloneOutcomes ==
    (\A c \in DOMAIN txn.calls : c # txn.last.call => txn.calls[c].phase = "none")
        => C23_ExecuteOutcomes

\* ---------------------------------------------------------------- swap page
\* C27: getQuote returns a cached amount only when the entry was stored for
\* the same tokens and amount less than the cache time earlier; only
\* quotes that succeeded are in the cache; and whenever getQuote returns
\* an amount, priceImpact is the price impact of the quote that amount
\* came from.
C27_QuoteCache ==
    LET r == swapPage.returned
        entry == swapPage.quoteCache
    IN
    /\ (r.op = "getQuote" /\ r.from = "cache") =>
          /\ entry # Null
          /\ entry.key = r.key
          /\ swapPage.time - entry.timestamp < quoteCacheMs
          /\ r.ret = entry.quote
    /\ entry # Null =>
          /\ GetSwapQuote(entry.response) # Null
          /\ entry.quote = FormatOutputAmount(entry.response.outAmount, entry.key[2])
    /\ (r.op = "getQuote" /\ r.ret # Null) =>
          swapPage.priceImpact = GetSwapQuote(r.response).priceImpactPct

\* the cache part of C27 alone
C27_CacheOnly ==
    LET r == swapPage.returned
        entry == swapPage.quoteCache
    IN
    /\ (r.op = "getQuote" /\ r.from = "cache") =>
          /\ entry # Null
          /\ entry.key = r.key
          /\ swapPage.time - entry.timestamp < quoteCacheMs
          /\ r.ret = entry.quote
    /\ entry # Null =>
          /\ GetSwapQuote(entry.response) # Null
          /\ entry.quote = FormatOutputAmount(entry.response.outAmount, entry.key[2])

\* C28: when no debounce timer is set and no quote request is in flight,
\* quoteLoading is false and the displayed toAmount is empty when the
\* inputs ask for no quote, and else was computed for the inputs the page
\* holds.
C28_LatestQuoteShown ==
    (~swapPage.timer /\ swapPage.requests = <<>>) =>
        /\ ~swapPage.quoteLoading
        /\ IF NoQuoteWanted(swapPage.fromAmount)
           THEN swapPage.toAmount = Blank
           ELSE swapPage.toAmountFor = Input(swapPage)

====
